---------------------------- MODULE Spec2Model ----------------------------
(***************************************************************************)
(* Tool-call protocol of the Wikidata retrieval agent (kb_project.tools).  *)
(*                                                                         *)
(* The module-level Protocol State (_ALLOWED_QIDS, _QID_TO_ENTITY,         *)
(* _SPARQL_ATTEMPTED) is shared by every caller in the process.  The four  *)
(* tools and reset_tool_protocol_state are the operations.  Spec has one   *)
(* caller issue them one after the other, SpecRuns has the question runs   *)
(* in Runs interleave, SpecValidation and SpecRows apply the validation    *)
(* and the row cap of Query Escalation to many inputs, SpecSearch and      *)
(* SpecFormat do the same for Entity Search and for the fact sheet of      *)
(* Property Fetch, and SpecAgent has the agent answer questions one after  *)
(* the other: reset, the steps of the graph up to the step limit, and the  *)
(* choice and cleanup of the answer.  Strings are TLA+ strings, handled    *)
(* character by character as the Python code does.                         *)
(***************************************************************************)
EXTENDS Integers, Sequences, FiniteSets, TLC

(***************************************************************************)
(* Python string primitives                                                *)
(***************************************************************************)
Ch(s, i) == SubSeq(s, i, i)

Min(a, b) == IF a < b THEN a ELSE b
Max(a, b) == IF a > b THEN a ELSE b

UpperOf ==
    [a |-> "A", b |-> "B", c |-> "C", d |-> "D", e |-> "E", f |-> "F", g |-> "G",
     h |-> "H", i |-> "I", j |-> "J", k |-> "K", l |-> "L", m |-> "M", n |-> "N",
     o |-> "O", p |-> "P", q |-> "Q", r |-> "R", s |-> "S", t |-> "T", u |-> "U",
     v |-> "V", w |-> "W", x |-> "X", y |-> "Y", z |-> "Z"]
LowerOf ==
    [A |-> "a", B |-> "b", C |-> "c", D |-> "d", E |-> "e", F |-> "f", G |-> "g",
     H |-> "h", I |-> "i", J |-> "j", K |-> "k", L |-> "l", M |-> "m", N |-> "n",
     O |-> "o", P |-> "p", Q |-> "q", R |-> "r", S |-> "s", T |-> "t", U |-> "u",
     V |-> "v", W |-> "w", X |-> "x", Y |-> "y", Z |-> "z"]
Digits == {"0", "1", "2", "3", "4", "5", "6", "7", "8", "9"}

IsLower(c) == c \in DOMAIN UpperOf
IsUpper(c) == c \in DOMAIN LowerOf
IsDigit(c) == c \in Digits
\* NBSP stands for the no-break space U+00A0, which str.isspace() accepts
NBSP == "\f"
IsSpace(c) == c \in {" ", "\n", "\t", "\r", NBSP}
\* a regular-expression word character: [A-Za-z0-9_]
IsWordCh(c) == IsLower(c) \/ IsUpper(c) \/ IsDigit(c) \/ c = "_"

UpperCh(c) == IF IsLower(c) THEN UpperOf[c] ELSE c
LowerCh(c) == IF IsUpper(c) THEN LowerOf[c] ELSE c

\* The operators that build a string character by character split it in
\* halves: the depth of the evaluation grows with the logarithm of the length.
RECURSIVE StrUpper(_)
\* str.upper()
StrUpper(s) ==
    IF Len(s) = 0 THEN ""
    ELSE IF Len(s) = 1 THEN UpperCh(s)
    ELSE StrUpper(SubSeq(s, 1, Len(s) \div 2)) \o StrUpper(SubSeq(s, Len(s) \div 2 + 1, Len(s)))

RECURSIVE StrLower(_)
\* str.lower()
StrLower(s) ==
    IF Len(s) = 0 THEN ""
    ELSE IF Len(s) = 1 THEN LowerCh(s)
    ELSE StrLower(SubSeq(s, 1, Len(s) \div 2)) \o StrLower(SubSeq(s, Len(s) \div 2 + 1, Len(s)))

\* position of the first occurrence of character c in s at or after i, 0 when absent
IndexIn(s, c, i) ==
    IF \A k \in i..Len(s) : Ch(s, k) # c THEN 0
    ELSE CHOOSE k \in i..Len(s) : Ch(s, k) = c /\ \A n \in i..(k - 1) : Ch(s, n) # c

RECURSIVE FirstInk(_, _)
\* the first position at or after i that holds no whitespace, Len(s) + 1 when none
FirstInk(s, i) == IF i <= Len(s) /\ IsSpace(Ch(s, i)) THEN FirstInk(s, i + 1) ELSE i

RECURSIVE LastInk(_, _)
\* the last position at or before i that holds no whitespace, 0 when none
LastInk(s, i) == IF i >= 1 /\ IsSpace(Ch(s, i)) THEN LastInk(s, i - 1) ELSE i

\* str.strip()
Strip(s) == SubSeq(s, FirstInk(s, 1), LastInk(s, Len(s)))

\* s[i:].startswith(pat), positions counted from 1
StartsWithAt(s, i, pat) ==
    /\ i >= 1
    /\ i + Len(pat) - 1 <= Len(s)
    /\ SubSeq(s, i, i + Len(pat) - 1) = pat

\* pat in s
Contains(s, pat) == \E i \in 1..(Len(s) + 1) : StartsWithAt(s, i, pat)

\* str.isdigit() on ASCII text: non-empty and every character a digit
IsDigitStr(s) == s # "" /\ \A i \in 1..Len(s) : IsDigit(Ch(s, i))

\* position of the last occurrence of c in s at or before i, 0 when absent
LastIndexOf(s, c, i) ==
    IF \A k \in 1..i : Ch(s, k) # c THEN 0
    ELSE CHOOSE k \in 1..i : Ch(s, k) = c /\ \A n \in (k + 1)..i : Ch(s, n) # c

\* s.rsplit(c, 1)[-1]
RSplitLast(s, c) == SubSeq(s, LastIndexOf(s, c, Len(s)) + 1, Len(s))

RECURSIVE ReplaceCh(_, _, _)
\* str.replace(old, new) for a one-character old
ReplaceCh(s, old, new) ==
    IF Len(s) = 0 THEN ""
    ELSE IF Len(s) = 1 THEN (IF s = old THEN new ELSE s)
    ELSE ReplaceCh(SubSeq(s, 1, Len(s) \div 2), old, new)
         \o ReplaceCh(SubSeq(s, Len(s) \div 2 + 1, Len(s)), old, new)

\* list[:n] (Python slice, n may be negative)
SliceTo(seq, n) ==
    IF n >= 0 THEN SubSeq(seq, 1, Min(n, Len(seq)))
    ELSE SubSeq(seq, 1, Max(Len(seq) + n, 0))

RECURSIVE JoinWith(_, _)
\* sep.join(parts)
JoinWith(parts, sep) ==
    IF Len(parts) = 0 THEN ""
    ELSE IF Len(parts) = 1 THEN parts[1]
    ELSE JoinWith(SubSeq(parts, 1, Len(parts) \div 2), sep) \o sep
         \o JoinWith(SubSeq(parts, Len(parts) \div 2 + 1, Len(parts)), sep)

\* dict.get(key, default) on a mapping with string keys
Get(d, key, default) == IF key \in DOMAIN d THEN d[key] ELSE default

\* b.get(key, {}).get("value", default) on a binding of a query result, which
\* maps a variable name to a mapping with the key "value"
BindingValue(b, key, default) ==
    IF key \in DOMAIN b THEN Get(b[key], "value", default) ELSE default

(***************************************************************************)
(* Protocol State: kb_project/tools/tool_protocol_state.py                 *)
(***************************************************************************)
VARIABLES
    allowed_qids,      \* _ALLOWED_QIDS
    qid_to_entity,     \* _QID_TO_ENTITY, a mapping from id to entity name
    sparql_attempted,  \* _SPARQL_ATTEMPTED
    last,              \* the tool call that returned last: operation, arguments, result
    returned,          \* history: ids listed by the searches since the last reset
    sparql_invoked,    \* history: wikidata_sparql was invoked since the last reset
    revoked,           \* history: ids that were authorized when the last reset ran
    runs,              \* the question runs that share the process, each with its
                       \* position in a fetch and the history of its own calls
    agent              \* the question run of the agent: entry point, position in
                       \* the graph, messages, answer

protocol == <<allowed_qids, qid_to_entity, sparql_attempted>>
vars == <<allowed_qids, qid_to_entity, sparql_attempted, last, returned,
          sparql_invoked, revoked, runs, agent>>

EmptyMap == [k \in {} |-> ""]

\* the state _ALLOWED_QIDS = set(), _QID_TO_ENTITY = {}, _SPARQL_ATTEMPTED = False
InitialProtocolState == <<{}, EmptyMap, FALSE>>

\* a test that looks at the first letter only
StartsWithQ(qid) == StartsWithAt(qid, 1, "Q") /\ Len(qid) >= 2

\* the test of register_search_candidates for one candidate id, after strip().upper()
IsRegistrableQid(qid) ==
    /\ StartsWithAt(qid, 1, "Q")
    /\ Len(qid) >= 2
    /\ IsDigitStr(SubSeq(qid, 2, Len(qid)))

RECURSIVE register_search_candidates(_, _, _, _)
\* The loop of register_search_candidates over candidates[i..]: st is
\* [allowed, entity, registered], the two collections and the list returned.
register_search_candidates(entity_name, candidates, i, st) ==
    IF i > Len(candidates) THEN st
    ELSE
        LET normalized_entity == Strip(entity_name)
            qid == StrUpper(Strip(Get(candidates[i], "qid", "")))
        IN  IF ~IsRegistrableQid(qid)
            THEN register_search_candidates(entity_name, candidates, i + 1, st)
            ELSE register_search_candidates(entity_name, candidates, i + 1,
                    [allowed |-> st.allowed \cup {qid},
                     entity |->
                        IF normalized_entity # ""
                        THEN [k \in DOMAIN st.entity \cup {qid} |->
                                IF k = qid THEN normalized_entity ELSE st.entity[k]]
                        ELSE st.entity,
                     registered |-> Append(st.registered, qid)])

\* a check that looks at the shape of the id only
is_qid_wellformed(qid, allowed) == IsRegistrableQid(StrUpper(Strip(qid)))

\* normalized in _ALLOWED_QIDS
is_qid_authorized(qid, allowed) == StrUpper(Strip(qid)) \in allowed

\* a gate that is always open
has_sparql_attempt_open(attempted) == TRUE

\* has_sparql_attempt(): the value of _SPARQL_ATTEMPTED
has_sparql_attempt(attempted) == attempted

\* the digits and capitals in the order of their code points
CodeOrder == "0123456789ABCDEFGHIJKLMNOPQRSTUVWXYZ"

RECURSIVE SortedStrings(_)
\* sorted(set of strings) for strings of digits and capital letters
SortedStrings(S) ==
    IF S = {} THEN <<>>
    ELSE LET least == CHOOSE x \in S : \A y \in S :
                          \/ x = y
                          \/ Len(x) < Len(y) /\ StartsWithAt(y, 1, x)
                          \/ \E k \in 1..Min(Len(x), Len(y)) :
                                /\ SubSeq(x, 1, k - 1) = SubSeq(y, 1, k - 1)
                                /\ IndexIn(CodeOrder, Ch(x, k), 1)
                                     < IndexIn(CodeOrder, Ch(y, k), 1)
         IN  <<least>> \o SortedStrings(S \ {least})

\* sorted(_ALLOWED_QIDS)[: max(1, limit)]
get_authorized_qids(allowed, limit) == SliceTo(SortedStrings(allowed), Max(1, limit))

(***************************************************************************)
(* Entity Search: kb_project/tools/search_entity_candidates.py             *)
(***************************************************************************)
MAX_SEARCH_RESULTS == 10

wikimedia_types ==
    {"Wikimedia category", "Wikimedia disambiguation page", "Wikimedia template",
     "Wikimedia project page", "Wikimedia list article", "Wikimedia internal item"}

type_keywords ==
    [person |-> <<"person", "human", "politician", "scientist", "artist", "author">>,
     scientist |-> <<"scientist", "researcher", "physicist", "biologist", "chemist">>,
     politician |-> <<"politician", "president", "prime minister", "senator", "governor">>,
     athlete |-> <<"athlete", "footballer", "basketball player", "runner", "swimmer">>,
     country |-> <<"country", "sovereign state", "nation">>,
     city |-> <<"city", "town", "municipality", "metropolis">>,
     organization |-> <<"organization", "company", "university", "institution">>,
     mountain |-> <<"mountain", "peak", "summit">>,
     lake |-> <<"lake", "body of water">>,
     island |-> <<"island", "archipelago">>,
     film |-> <<"film", "movie", "motion picture">>,
     book |-> <<"book", "novel", "literary work", "publication">>,
     album |-> <<"album", "studio album", "music album">>,
     song |-> <<"song", "single", "musical composition">>,
     painting |-> <<"painting", "artwork", "oil painting">>,
     software |-> <<"software", "computer program", "application">>,
     game |-> <<"video game", "game", "computer game">>,
     company |-> <<"company", "corporation", "business", "enterprise">>,
     band |-> <<"band", "musical group", "rock band">>,
     sports_team |-> <<"sports team", "football club", "basketball team">>,
     political_party |-> <<"political party", "party">>,
     ngo |-> <<"non-governmental organization", "NGO", "nonprofit">>,
     species |-> <<"species", "taxon", "organism">>,
     chemical |-> <<"chemical compound", "chemical element", "molecule">>,
     disease |-> <<"disease", "medical condition", "illness">>,
     event |-> <<"event", "occurrence", "historical event">>,
     award |-> <<"award", "prize", "honor">>]

RECURSIVE MergeRows(_, _, _)
\* The loop that fills entities_dict, kept as the list of its values in
\* insertion order: rows of one id are merged and their instance_of united.
MergeRows(rows, i, entities) ==
    IF i > Len(rows) THEN entities
    ELSE
        LET b == rows[i]
            qid == RSplitLast(b["item"]["value"], "/")
            lbl == BindingValue(b, "itemLabel", qid)
            desc == BindingValue(b, "itemDescription", "")
            instance_of == BindingValue(b, "instanceOfLabel", "")
            at == {k \in 1..Len(entities) : entities[k].qid = qid}
        IN  IF at = {}
            THEN MergeRows(rows, i + 1,
                    Append(entities,
                        [qid |-> qid, label |-> lbl, description |-> desc,
                         instance_of |-> IF instance_of # "" THEN <<instance_of>> ELSE <<>>]))
            ELSE LET k == CHOOSE n \in at : TRUE
                     seen == {entities[k].instance_of[n] : n \in 1..Len(entities[k].instance_of)}
                 IN  IF instance_of # "" /\ instance_of \notin seen
                     THEN MergeRows(rows, i + 1,
                            [entities EXCEPT ![k].instance_of = Append(@, instance_of)])
                     ELSE MergeRows(rows, i + 1, entities)

\* a filter that lets every entity pass
Unfiltered(entities) == entities

\* filtered_entities: the entities whose description is no Wikimedia housekeeping type
FilterWikimedia(entities) == SelectSeq(entities, LAMBDA e : e.description \notin wikimedia_types)

\* type_keywords.get(entity_type.lower(), [entity_type.lower()])
KeywordsFor(entity_type) ==
    Get(type_keywords, StrLower(entity_type), <<StrLower(entity_type)>>)

RECURSIVE ScoreFrom(_, _, _)
ScoreFrom(e, keywords, i) ==
    IF i > Len(keywords) THEN 0
    ELSE LET kw == keywords[i]
             desc_lower == StrLower(e.description)
         IN  (IF Contains(desc_lower, kw) THEN 2 ELSE 0)
           + (IF \E n \in 1..Len(e.instance_of) : Contains(StrLower(e.instance_of[n]), kw)
              THEN 3 ELSE 0)
           + ScoreFrom(e, keywords, i + 1)

\* a score that looks at the facets that are displayed only
score_shown(e, keywords) == ScoreFrom([e EXCEPT !.instance_of = SliceTo(@, 3)], keywords, 1)

score_entity(e, keywords) == ScoreFrom(e, keywords, 1)

RECURSIVE InsertByScore(_, _, _)
\* e put into a list sorted by descending score, after the entries of equal score
InsertByScore(sorted, e, keywords) ==
    IF sorted = <<>> THEN <<e>>
    ELSE IF score_entity(sorted[1], keywords) >= score_entity(e, keywords)
         THEN <<sorted[1]>> \o InsertByScore(Tail(sorted), e, keywords)
         ELSE <<e>> \o sorted

RECURSIVE SortByScore(_, _, _)
\* list.sort(key=score_entity, reverse=True): stable, descending
SortByScore(entities, keywords, sorted) ==
    IF entities = <<>> THEN sorted
    ELSE SortByScore(Tail(entities), keywords, InsertByScore(sorted, entities[1], keywords))

\* the candidate as returned: instance_of joined, at most three facets
JoinInstanceOf(e) == [e EXCEPT !.instance_of = JoinWith(SliceTo(@, 3), ", ")]

\* a list that is not cut
Untruncated(entities, limit) == entities

\* filtered_entities[:limit]
Truncated(entities, limit) == SliceTo(entities, limit)

\* The upstream answer to a search: upstream.raised, or upstream.bindings.
search_entity_sparql(label, limit, entity_type, upstream) ==
    IF upstream.raised THEN <<>>
    ELSE
        LET entities == MergeRows(upstream.bindings, 1, <<>>)
            filtered == FilterWikimedia(entities)
            ranked == IF entity_type # ""
                      THEN SortByScore(filtered, KeywordsFor(entity_type), <<>>)
                      ELSE filtered
            shown == [n \in 1..Len(ranked) |-> JoinInstanceOf(ranked[n])]
        IN  Truncated(shown, limit)

CandidateLine(i, c) ==
    LET desc == c.description
        instance_of == c.instance_of
        info == IF desc # "" /\ instance_of # "" THEN desc \o " (Type: " \o instance_of \o ")"
                ELSE IF desc # "" THEN desc
                ELSE IF instance_of # "" THEN "Type: " \o instance_of
                ELSE "(no description)"
    IN  ToString(i) \o ". [" \o c.qid \o "] " \o c.label \o " - " \o info

SearchNextStep ==
    "NEXT STEP: Call fetch_entity_properties with one literal QID from above "
        \o "(example: qid='Q142'). Do not use code/expression syntax."

\* The tool body: [ret, allowed, entity] are the string returned and the two
\* collections of the Protocol State after the call; candidates is the list.
search_entity_candidates(entity_name_arg, entity_type, upstream, allowed, entity) ==
    LET entity_name == Strip(ReplaceCh(entity_name_arg, NBSP, " "))
        candidates == search_entity_sparql(entity_name, MAX_SEARCH_RESULTS, entity_type, upstream)
        reg == register_search_candidates(entity_name, candidates, 1,
                   [allowed |-> allowed, entity |-> entity, registered |-> <<>>])
    IN  IF candidates = <<>>
        THEN [ret |-> "NO CANDIDATES FOUND for '" \o entity_name
                        \o "'. Entity cannot be verified in Wikidata.",
              candidates |-> candidates, allowed |-> allowed, entity |-> entity]
        ELSE [ret |-> JoinWith(
                        <<"CANDIDATES for '" \o entity_name \o "' ("
                            \o ToString(Len(candidates)) \o " found):", "">>
                        \o [n \in 1..Len(candidates) |-> CandidateLine(n, candidates[n])]
                        \o <<"", SearchNextStep>>, "\n"),
              candidates |-> candidates, allowed |-> reg.allowed, entity |-> reg.entity]

(***************************************************************************)
(* Property Fetch: kb_project/tools/fetch_entity_properties.py             *)
(***************************************************************************)
\* The property catalog kb_project.wikidata.properties.WIKIDATA_PROPERTIES
WIKIDATA_PROPERTIES == [P36 |-> "capital", P108 |-> "employer"]

\* Q followed by digits and nothing else
IsLiteralQid(s) ==
    /\ Len(s) >= 2
    /\ Ch(s, 1) = "Q"
    /\ IsDigitStr(SubSeq(s, 2, Len(s)))

\* re.compile(r"^Q\d+$").match(s): $ also matches before one final newline
qid_pattern(s) ==
    \/ IsLiteralQid(s)
    \/ s # "" /\ Ch(s, Len(s)) = "\n" /\ IsLiteralQid(SubSeq(s, 1, Len(s) - 1))

\* expression_like_qid_pattern.search(s), case-insensitive
expression_like_qid_pattern(s) ==
    \E pat \in {"SEARCH_ENTITY_CANDIDATES", "[", "]", "(", ")", "{", "}",
                "\"QID\"", "'QID'"} :
        Contains(StrUpper(s), pat)

\* A value of the properties argument is a string, or a list of strings
\* (nested = TRUE) as an upstream normalization may hand it over.
RECURSIVE ProcessProperties(_, _)
ProcessProperties(properties, i) ==
    IF i > Len(properties) THEN <<>>
    ELSE LET p == properties[i]
         IN  (IF p.nested
              THEN (IF Len(p.items) > 0 THEN <<p.items[1]>> ELSE <<>>)
              ELSE <<p.items[1]>>)
             \o ProcessProperties(properties, i + 1)

RECURSIVE ValidProps(_, _)
\* [p.strip().upper() for p in props if p.strip().upper() in WIKIDATA_PROPERTIES]
ValidProps(props, i) ==
    IF i > Len(props) THEN <<>>
    ELSE (IF StrUpper(Strip(props[i])) \in DOMAIN WIKIDATA_PROPERTIES
          THEN <<StrUpper(Strip(props[i]))>> ELSE <<>>)
         \o ValidProps(props, i + 1)

QualifierProps == <<"P580", "P582", "P585">>

PropertyClause(prop, include_qualifiers) ==
    LET var == StrLower(prop)
        statement_var == "?" \o var \o "Statement"
        value_var == "?" \o var \o "Value"
        qualifier_optionals ==
            IF include_qualifiers
            THEN [n \in 1..3 |->
                    "    OPTIONAL { " \o statement_var \o " pq:" \o QualifierProps[n]
                        \o " ?" \o var \o QualifierProps[n] \o " . }"]
            ELSE <<>>
    IN  JoinWith(<<"  OPTIONAL {",
                   "    ?item p:" \o prop \o " " \o statement_var \o " .",
                   "    " \o statement_var \o " ps:" \o prop \o " " \o value_var \o " .">>
                 \o qualifier_optionals \o <<"  }">>, "\n")

PropertySelectVars(prop, include_qualifiers) ==
    LET var == StrLower(prop)
    IN  <<"?" \o var \o "Value", "?" \o var \o "ValueLabel">>
        \o (IF include_qualifiers
            THEN [n \in 1..3 |-> "?" \o var \o QualifierProps[n]] ELSE <<>>)

RECURSIVE Flatten(_)
Flatten(lists) == IF lists = <<>> THEN <<>> ELSE lists[1] \o Flatten(Tail(lists))

build_dynamic_sparql_query(qid, property_ids, include_qualifiers) ==
    LET valid_props == ValidProps(property_ids, 1)
        select_vars ==
            <<"?itemLabel", "?itemDescription", "?wikipediaUrl">>
            \o Flatten([n \in 1..Len(valid_props) |->
                            PropertySelectVars(valid_props[n], include_qualifiers)])
        optional_clauses ==
            [n \in 1..Len(valid_props) |-> PropertyClause(valid_props[n], include_qualifiers)]
    IN  IF valid_props = <<>> THEN ""
        ELSE JoinWith(
            <<"PREFIX wd: <http://www.wikidata.org/entity/>",
              "PREFIX p: <http://www.wikidata.org/prop/>",
              "PREFIX ps: <http://www.wikidata.org/prop/statement/>",
              "PREFIX pq: <http://www.wikidata.org/prop/qualifier/>",
              "PREFIX schema: <http://schema.org/>",
              "PREFIX wikibase: <http://wikiba.se/ontology#>",
              "PREFIX bd: <http://www.bigdata.com/rdf#>",
              "",
              "SELECT " \o JoinWith(select_vars, " ") \o " WHERE {",
              "  BIND(wd:" \o qid \o " AS ?item)",
              "",
              JoinWith(optional_clauses, "\n"),
              "",
              "  OPTIONAL {",
              "    ?wikipediaUrl schema:about ?item ;",
              "                  schema:isPartOf <https://en.wikipedia.org/> .",
              "  }",
              "",
              "  SERVICE wikibase:label {",
              "    bd:serviceParam wikibase:language \"en\".",
              "  }",
              "}",
              "LIMIT 200">>, "\n")

\* value.split("T", 1)[0] for a datetime-like value, the value otherwise
format_time_value(value) ==
    IF value = "" THEN value
    ELSE IF Contains(value, "T") /\ Ch(value, Len(value)) = "Z"
         THEN SubSeq(value, 1, IndexIn(value, "T", 1) - 1)
         ELSE value

\* a key that tells entries apart by their value alone
DedupeKeyOfValue(value, start_time, end_time, point_in_time) == <<value>>

\* dedupe_key: the formatted value and the three qualifier values as bound
DedupeKey(value, start_time, end_time, point_in_time) ==
    <<value, start_time, end_time, point_in_time>>

\* An absent variable, None and the empty string are all falsy in the code
\* and are "" here.
RECURSIVE CollectProp(_, _, _, _, _)
\* collected[prop] after the loop over bindings[i..]: entries is the list so
\* far and keys the dedupe_keys[prop] set.
CollectProp(bindings, prop, include_qualifiers, i, acc) ==
    IF i > Len(bindings) THEN acc.entries
    ELSE
        LET b == bindings[i]
            var == StrLower(prop)
            label_value == BindingValue(b, var \o "ValueLabel", "")
            raw == IF label_value # "" THEN label_value ELSE BindingValue(b, var \o "Value", "")
            value == format_time_value(raw)
            start_time == BindingValue(b, var \o "P580", "")
            end_time == BindingValue(b, var \o "P582", "")
            point_in_time == BindingValue(b, var \o "P585", "")
            dedupe_key == DedupeKey(value, start_time, end_time, point_in_time)
            qualifiers ==
                IF include_qualifiers
                THEN (IF start_time # "" THEN <<"start: " \o format_time_value(start_time)>> ELSE <<>>)
                  \o (IF end_time # "" THEN <<"end: " \o format_time_value(end_time)>> ELSE <<>>)
                  \o (IF point_in_time # "" THEN <<"time: " \o format_time_value(point_in_time)>> ELSE <<>>)
                ELSE <<>>
        IN  IF raw = "" \/ dedupe_key \in acc.keys
            THEN CollectProp(bindings, prop, include_qualifiers, i + 1, acc)
            ELSE CollectProp(bindings, prop, include_qualifiers, i + 1,
                    [entries |-> Append(acc.entries, [value |-> value, qualifiers |-> qualifiers]),
                     keys |-> acc.keys \cup {dedupe_key}])

RECURSIVE FirstValue(_, _, _)
\* the first truthy value of variable key over the bindings, "" when none
FirstValue(bindings, key, i) ==
    IF i > Len(bindings) THEN ""
    ELSE IF BindingValue(bindings[i], key, "") # "" THEN bindings[i][key]["value"]
    ELSE FirstValue(bindings, key, i + 1)

\* EmDash stands for the dash U+2014 of the one-line rendering
EmDash == "--"

EntryLine(entry) ==
    IF entry.qualifiers # <<>>
    THEN "  - " \o entry.value \o " (" \o JoinWith(entry.qualifiers, ", ") \o ")"
    ELSE "  - " \o entry.value

\* a rendering that leaves out the properties without a value
PropertyBlockIfAny(prop, collected) ==
    LET label == prop \o ": " \o Get(WIKIDATA_PROPERTIES, prop, prop)
        entries == SliceTo(collected, 5)
    IN  IF entries # <<>>
        THEN IF Len(entries) = 1 /\ entries[1].qualifiers = <<>>
             THEN <<label \o " " \o EmDash \o " " \o entries[1].value>>
             ELSE <<label \o ":">> \o [n \in 1..Len(entries) |-> EntryLine(entries[n])]
        ELSE <<>>

\* collected is what the binding loop gathered for prop: with repeated codes
\* in valid_props the later passes find every key in dedupe_keys already.
PropertyBlock(prop, collected) ==
    LET label == prop \o ": " \o Get(WIKIDATA_PROPERTIES, prop, prop)
        entries == SliceTo(collected, 5)
    IN  IF entries # <<>>
        THEN IF Len(entries) = 1 /\ entries[1].qualifiers = <<>>
             THEN <<label \o " " \o EmDash \o " " \o entries[1].value>>
             ELSE <<label \o ":">> \o [n \in 1..Len(entries) |-> EntryLine(entries[n])]
        ELSE <<label \o ": (not available)">>

\* [text, wikipedia_url]
format_property_results(bindings, valid_props, qid, include_qualifiers) ==
    IF bindings = <<>> THEN [text |-> "No data found.", wikipedia_url |-> ""]
    ELSE
        LET entity_label == FirstValue(bindings, "itemLabel", 1)
            entity_desc == FirstValue(bindings, "itemDescription", 1)
            header ==
                (IF entity_label # "" /\ qid # ""
                 THEN <<"Entity: " \o entity_label, "QID: " \o qid>>
                 ELSE IF entity_label # "" THEN <<"Entity: " \o entity_label>> ELSE <<>>)
                \o (IF entity_desc # "" THEN <<"Description: " \o entity_desc>> ELSE <<>>)
                \o <<"">>
            blocks ==
                [n \in 1..Len(valid_props) |->
                    PropertyBlock(valid_props[n],
                        CollectProp(bindings, valid_props[n], include_qualifiers, 1,
                                    [entries |-> <<>>, keys |-> {}]))]
        IN  [text |-> JoinWith(header \o Flatten(blocks), "\n"),
             wikipedia_url |-> FirstValue(bindings, "wikipediaUrl", 1)]

NoCandidatesError ==
    "Error: Tool-order protocol violation. "
    \o "Call search_entity_candidates(entity_name, entity_type) first for each entity, "
    \o "select one returned candidate, then pass its literal QID to fetch_entity_properties "
    \o "(for example: qid='Q142'). No candidate QIDs are registered for this run."

LiteralQidError ==
    "Error: Invalid QID argument. "
    \o "Call search_entity_candidates(entity_name, entity_type) first, "
    \o "select a returned candidate, then pass only its literal QID string "
    \o "to fetch_entity_properties (for example: 'Q142')."

InvalidQidError(qid) ==
    "Error: Invalid QID '" \o qid \o "'. Must be 'Q' followed by digits (e.g., 'Q142')."

UnauthorizedQidError(allowed) ==
    "Error: Tool-order protocol violation. "
    \o "Call search_entity_candidates(entity_name, entity_type) first for each entity, "
    \o "select a returned QID, then call fetch_entity_properties."
    \o (IF allowed # <<>>
        THEN " Authorized candidate QIDs in this run: " \o JoinWith(allowed, ", ") \o "."
        ELSE " No candidate QIDs are registered for this run.")

\* The part of the body before is_qid_authorized: "" when the call goes on.
\* allowed is the list get_authorized_qids() returned.
FetchEarlyReturn(qid_arg, allowed) ==
    LET qid == StrUpper(Strip(qid_arg))
    IN  IF allowed = <<>> THEN NoCandidatesError
        ELSE IF ~qid_pattern(qid)
             THEN IF expression_like_qid_pattern(qid) THEN LiteralQidError
                  ELSE InvalidQidError(qid)
             ELSE ""

\* a failure of the query service that leaves the function as an exception
FetchFailedUncaught(qid, upstream) ==
    [ret |-> upstream.error, remote |-> 1, raised |-> TRUE]

\* The return when _run_sparql raises: the except clause turns the exception
\* into a string.
FetchFailed(qid, upstream) ==
    [ret |-> "Error fetching properties for " \o qid \o ": " \o upstream.error,
     remote |-> 1, raised |-> FALSE]

\* The body from is_qid_authorized on: allowed is the list read at the start,
\* allowed_now the set at the time of the check; upstream is the answer of
\* the query service.  [ret, remote, raised]: the string returned, the queries
\* issued, whether an exception left the function.
FetchAfterShape(qid_arg, properties, include_qualifiers, allowed, allowed_now, upstream) ==
    LET qid == StrUpper(Strip(qid_arg))
        valid_props == ValidProps(ProcessProperties(properties, 1), 1)
        query == build_dynamic_sparql_query(qid, valid_props, include_qualifiers)
    IN  IF ~is_qid_authorized(qid, allowed_now)
        THEN [ret |-> UnauthorizedQidError(allowed), remote |-> 0, raised |-> FALSE]
        ELSE IF valid_props = <<>>
        THEN [ret |-> "Error: No valid properties specified.", remote |-> 0, raised |-> FALSE]
        ELSE IF query = ""
        THEN [ret |-> "Error: Could not build query for " \o qid, remote |-> 0,
              raised |-> FALSE]
        ELSE IF upstream.raised
        THEN FetchFailed(qid, upstream)
        ELSE IF upstream.bindings = <<>>
        THEN [ret |-> "Error: Entity " \o qid
                        \o " not found or has no data for requested properties.",
              remote |-> 1, raised |-> FALSE]
        ELSE [ret |-> format_property_results(upstream.bindings, valid_props, qid,
                                              include_qualifiers).text,
              remote |-> 1, raised |-> FALSE]

\* The function body, run without interruption: both reads see allowed_set.
fetch_entity_properties(qid_arg, properties, include_qualifiers, allowed_set, upstream) ==
    LET allowed == get_authorized_qids(allowed_set, 15)
        early == FetchEarlyReturn(qid_arg, allowed)
    IN  IF early # "" THEN [ret |-> early, remote |-> 0, raised |-> FALSE]
        ELSE FetchAfterShape(qid_arg, properties, include_qualifiers, allowed,
                             allowed_set, upstream)

\* FetchPropertiesInput: the error of the argument schema, "" when it accepts.
\* The pattern is matched against the argument as passed, before strip/upper.
FetchPropertiesInput(qid_arg, properties) ==
    IF ~IsLiteralQid(qid_arg) THEN "qid: String should match pattern '^Q\\d+$'"
    ELSE IF \E n \in 1..Len(properties) : properties[n].nested
         THEN "properties: Input should be a valid string"
         ELSE ""

(***************************************************************************)
(* Query Escalation: kb_project/tools/wikidata_sparql.py                   *)
(***************************************************************************)
MAX_SPARQL_ROWS == 100
DEFAULT_SPARQL_LIMIT == 25

BlockedKeywords ==
    {"INSERT", "DELETE", "LOAD", "CLEAR", "CREATE", "DROP", "MOVE", "COPY", "ADD"}

IsWordAt(s, i) == i >= 1 /\ i <= Len(s) /\ IsWordCh(Ch(s, i))

\* \b between the characters i - 1 and i of s
WordBoundary(s, i) == IsWordAt(s, i - 1) # IsWordAt(s, i)

\* the regular expression word\b, word in capitals, matches at i the text
\* whose upper-cased form is upper (re.IGNORECASE)
KeywordAt(upper, i, word) ==
    /\ StartsWithAt(upper, i, word)
    /\ WordBoundary(upper, i + Len(word))

\* _BLOCKED_KEYWORDS_PATTERN.search(query)
BlockedKeywordsPattern(query) ==
    LET upper == StrUpper(query)
    IN  \E i \in 1..Len(query) :
            /\ WordBoundary(upper, i)
            /\ \E kw \in BlockedKeywords : KeywordAt(upper, i, kw)

\* the last position of the run of whitespace that starts at i, i - 1 when
\* the character at i is no whitespace
SpaceRunEnd(s, i) == FirstInk(s, i) - 1

\* the same for the run of characters other than the newline
LineRunEnd(s, i) ==
    LET stop == IndexIn(s, "\n", i) IN IF stop = 0 THEN Len(s) ELSE stop - 1

RECURSIVE PrefixesThenSelect(_, _)
\* (?:PREFIX\s+[^\n]+\s+)*SELECT\b matches at position i of the upper-cased query
PrefixesThenSelect(upper, i) ==
    \/ KeywordAt(upper, i, "SELECT")
    \/ /\ StartsWithAt(upper, i, "PREFIX")
       /\ \E a \in (i + 7)..(SpaceRunEnd(upper, i + 6) + 1) :
            \E b \in a..LineRunEnd(upper, a) :
                \E c \in (b + 1)..SpaceRunEnd(upper, b + 1) :
                    PrefixesThenSelect(upper, c + 1)

\* _PREFIX_AND_SELECT_PATTERN.match(query)
PrefixAndSelectPattern(query) ==
    LET upper == StrUpper(query)
    IN  \E i \in 1..(SpaceRunEnd(upper, 1) + 1) : PrefixesThenSelect(upper, i)

\* [ok, error]
is_safe_read_only_select(sparql) ==
    LET query == Strip(sparql)
    IN  IF query = "" THEN [ok |-> FALSE, error |-> "Error: Empty SPARQL query."]
        ELSE IF BlockedKeywordsPattern(query)
        THEN [ok |-> FALSE,
              error |-> "Error: SPARQL update/mutation keywords are not allowed."]
        ELSE IF ~PrefixAndSelectPattern(query)
        THEN [ok |-> FALSE, error |-> "Error: Only read-only SELECT queries are allowed."]
        ELSE [ok |-> TRUE, error |-> ""]

\* json.dumps of a string value
JsonString(v) ==
    "\"" \o ReplaceCh(ReplaceCh(ReplaceCh(v, "\\", "\\\\"), "\"", "\\\""), "\n", "\\n") \o "\""

\* One row of json.dumps(..., indent=2) at depth 2; keys is the order in
\* which the result lists the variables of a binding.
JsonRow(row, keys) ==
    LET present == SelectSeq(keys, LAMBDA k : k \in DOMAIN row)
    IN  IF present = <<>> THEN "    {}"
        ELSE "    {\n"
             \o JoinWith([n \in 1..Len(present) |->
                            "      " \o JsonString(present[n]) \o ": "
                                \o JsonString(row[present[n]])], ",\n")
             \o "\n    }"

\* json.dumps({"rows": rows}, ensure_ascii=False, indent=2), rows non-empty
JsonRows(rows, keys) ==
    "{\n  \"rows\": [\n"
    \o JoinWith([n \in 1..Len(rows) |-> JsonRow(rows[n], keys)], ",\n")
    \o "\n  ]\n}"

\* rows cut to the requested number alone
SparqlRowsUncapped(bindings, max_rows) ==
    LET kept == SliceTo(bindings, max_rows)
    IN  [n \in 1..Len(kept) |-> [k \in DOMAIN kept[n] |-> kept[n][k]["value"]]]

\* rows: the bindings cut to effective_max_rows, each reduced to its values
SparqlRows(bindings, max_rows) ==
    LET effective_max_rows == Min(max_rows, MAX_SPARQL_ROWS)
        kept == SliceTo(bindings, effective_max_rows)
    IN  [n \in 1..Len(kept) |-> [k \in DOMAIN kept[n] |-> kept[n][k]["value"]]]

\* a rejection that comes after mark_sparql_attempt()
SparqlRejectedMarked(valid) ==
    [ret |-> valid.error, marked |-> TRUE, remote |-> 0, rows |-> <<>>]

\* The return for a query that fails validation: nothing is marked or asked.
SparqlRejected(valid) ==
    [ret |-> valid.error, marked |-> FALSE, remote |-> 0, rows |-> <<>>]

\* an execution failure that leaves the flag as it was
SparqlFailedUnmarked(upstream) ==
    [ret |-> "SPARQL error: " \o upstream.error, marked |-> FALSE, remote |-> 1,
     rows |-> <<>>]

\* The return when run_sparql raises: mark_sparql_attempt() ran before it.
SparqlFailed(upstream) ==
    [ret |-> "SPARQL error: " \o upstream.error, marked |-> TRUE, remote |-> 1,
     rows |-> <<>>]

\* The tool body: [ret, marked, remote, rows]; marked tells whether
\* mark_sparql_attempt() was called, remote how many queries were issued.
wikidata_sparql(sparql, max_rows, upstream) ==
    LET valid == is_safe_read_only_select(sparql)
        rows == SparqlRows(upstream.bindings, max_rows)
    IN  IF ~valid.ok THEN SparqlRejected(valid)
        ELSE IF upstream.raised THEN SparqlFailed(upstream)
        ELSE IF rows = <<>>
        THEN [ret |-> "Query returned no results.", marked |-> TRUE, remote |-> 1,
              rows |-> <<>>]
        ELSE [ret |-> JsonRows(rows, upstream.vars), marked |-> TRUE, remote |-> 1,
              rows |-> rows]

\* SparqlInput: the error of the argument schema, "" when it accepts
SparqlInput(sparql, max_rows) ==
    IF max_rows < 1 THEN "max_rows: Input should be greater than or equal to 1" ELSE ""

(***************************************************************************)
(* Document Fallback: kb_project/tools/fetch_wikipedia_article.py          *)
(***************************************************************************)
MAX_ARTICLE_CHARS == 8000

EscalationFirstError ==
    "Error: Tool-order protocol violation. "
    \o "Call wikidata_sparql(sparql, max_rows) before fetch_wikipedia_article "
    \o "when structured properties are insufficient."

\* position of the last occurrence of pat in s, 0 when absent
LastIndexOfStr(s, pat) ==
    IF \A k \in 1..Len(s) : ~StartsWithAt(s, k, pat) THEN 0
    ELSE CHOOSE k \in 1..Len(s) :
            StartsWithAt(s, k, pat) /\ \A n \in (k + 1)..Len(s) : ~StartsWithAt(s, n, pat)

\* The title, "" for None: the query failed, found nothing, or its first
\* binding has no article value (the KeyError is caught with the rest).
get_wikipedia_title_from_qid(qid, upstream) ==
    IF upstream.raised \/ upstream.bindings = <<>> THEN ""
    ELSE IF BindingValue(upstream.bindings[1], "article", "") = "" THEN ""
    ELSE LET url == upstream.bindings[1]["article"]["value"]
             at == LastIndexOfStr(url, "/wiki/")
         IN  IF at = 0 THEN url ELSE SubSeq(url, at + 6, Len(url))

\* The plain text, "" for None: document.raised is a requests.RequestException,
\* document.text what html_to_plain_text makes of the page.
fetch_wikipedia_article(title, document) ==
    IF document.raised THEN "" ELSE document.text

\* The tool body: [ret, remote]
fetch_wikipedia_article_tool(qid, entity_name_arg, attempted, upstream, document) ==
    LET entity_name == Strip(ReplaceCh(entity_name_arg, NBSP, " "))
        wikipedia_title == get_wikipedia_title_from_qid(qid, upstream)
        article_text == fetch_wikipedia_article(wikipedia_title, document)
        shown == IF Len(article_text) > MAX_ARTICLE_CHARS
                 THEN SubSeq(article_text, 1, MAX_ARTICLE_CHARS) \o "\n\n[Article truncated...]"
                 ELSE article_text
    IN  IF ~has_sparql_attempt(attempted) THEN [ret |-> EscalationFirstError, remote |-> 0]
        ELSE IF wikipedia_title = ""
        THEN [ret |-> "No Wikipedia article found for " \o qid \o " (" \o entity_name \o ")",
              remote |-> 1]
        ELSE IF article_text = ""
        THEN [ret |-> "Could not fetch Wikipedia article for " \o entity_name, remote |-> 2]
        ELSE [ret |-> JoinWith(<<"=== Wikipedia Article: " \o entity_name \o " (" \o qid \o ") ===",
                                 "", shown, "", "=== END OF ARTICLE ===">>, "\n"),
              remote |-> 2]

(***************************************************************************)
(* The arguments the callers pass and the answers the remote services give *)
(***************************************************************************)
\* the result list of a search holds at most MaxUpstreamRows rows
MaxUpstreamRows == 2

Value(v) == [type |-> "literal", value |-> v]

\* What a remote service does with a request: it is not asked, it answers
\* with bindings, or the request raises.
NotAsked == [raised |-> FALSE, error |-> "", bindings |-> <<>>, vars |-> <<>>]
Answered(bindings, result_vars) ==
    [raised |-> FALSE, error |-> "", bindings |-> bindings, vars |-> result_vars]
Failed(error) == [raised |-> TRUE, error |-> error, bindings |-> <<>>, vars |-> <<>>]

EntityUri(id) == "http://www.wikidata.org/entity/" \o id

\* rows the search service gives, in the order it ranks them
SearchRowOrder ==
    <<[item |-> Value(EntityUri("Q3")), itemLabel |-> Value("France"),
       itemDescription |-> Value("Wikimedia disambiguation page")],
      [item |-> Value(EntityUri("Q1")), itemLabel |-> Value("France"),
       itemDescription |-> Value("country in Western Europe"),
       instanceOfLabel |-> Value("sovereign state")],
      [item |-> Value(EntityUri("Q2")), itemLabel |-> Value("Paris"),
       itemDescription |-> Value("capital of France"),
       instanceOfLabel |-> Value("city")]>>

SearchRows == {SearchRowOrder[n] : n \in 1..Len(SearchRowOrder)}

SearchVars == <<"item", "itemLabel", "itemDescription", "instanceOfLabel">>

\* the element of the set S of numbers that has i - 1 elements of S below it
Nth(S, i) == CHOOSE k \in S : Cardinality({j \in S : j < k}) = i - 1

\* the answers: up to MaxUpstreamRows of the rows, in ranking order
SearchRowLists ==
    {[i \in 1..Cardinality(S) |-> SearchRowOrder[Nth(S, i)]] :
        S \in {T \in SUBSET (1..Len(SearchRowOrder)) : Cardinality(T) <= MaxUpstreamRows}}

SearchUpstreams ==
    {Answered(rows, SearchVars) : rows \in SearchRowLists} \cup {Failed("timed out")}

SearchCalls ==
    {[entity_name |-> "France", entity_type |-> ""],
     [entity_name |-> "Paris" \o NBSP, entity_type |-> "City"]}

Str(p) == [nested |-> FALSE, items |-> <<p>>]
Nested(ps) == [nested |-> TRUE, items |-> ps]

ExpressionQid == "search_entity_candidates(entity_name=\"France\")[0][\"qid\"]"

\* identifier and property codes of the fetches: listed ids, an id no search
\* lists, a malformed id and an expression, with a known or an unknown code
FetchArguments ==
    {<<"Q1", <<Str("P36")>>>>, <<"Q1", <<Str("P999")>>>>, <<" q2 ", <<Str("P36")>>>>,
     <<"Q7", <<Str("P999")>>>>, <<"X12", <<Str("P36")>>>>, <<ExpressionQid, <<Str("P36")>>>>}

\* how the body is reached: through the tool (StructuredTool.invoke, which
\* validates the argument schema first) or as the plain function
Entries == {"invoke", "func"}

FetchCalls ==
    {[via |-> via, qid |-> a[1], properties |-> a[2], include_qualifiers |-> TRUE] :
        via \in Entries, a \in FetchArguments}

FetchVars == <<"itemLabel", "itemDescription", "p36ValueLabel">>

FetchUpstreams ==
    {Failed("timed out"),
     Answered(<<>>, FetchVars),
     Answered(<<[itemLabel |-> Value("France"),
                 itemDescription |-> Value("country in Western Europe"),
                 p36ValueLabel |-> Value("Paris")]>>, FetchVars)}

SparqlQueries ==
    {"SELECT ?item WHERE { ?item ?p ?o } LIMIT 1",
     "INSERT DATA { <a:b> <c:d> <e:f> }",
     "ASK WHERE { ?s ?p ?o }",
     "  "}

SparqlCalls ==
    [via : {"invoke"}, sparql : SparqlQueries, max_rows : {DEFAULT_SPARQL_LIMIT}]
    \cup {[via |-> "invoke", sparql |-> "SELECT ?item WHERE { ?item ?p ?o } LIMIT 1",
            max_rows |-> 0]}

SparqlUpstreams ==
    {Failed("timed out"),
     Answered(<<>>, <<"item">>),
     Answered(<<[item |-> Value("Q0")], [item |-> Value("Q1")]>>, <<"item">>)}

WikiCalls == [qid : {"Q937"}, entity_name : {"Albert" \o NBSP \o "Einstein "}]

TitleUpstreams ==
    {Failed("timed out"),
     Answered(<<>>, <<"article">>),
     Answered(<<[article |-> Value("https://en.wikipedia.org/wiki/Albert_Einstein")]>>,
              <<"article">>)}

NoDocument == [raised |-> FALSE, text |-> ""]

Documents ==
    {[raised |-> TRUE, text |-> ""],
     [raised |-> FALSE, text |-> ""],
     [raised |-> FALSE, text |-> "Albert Einstein was a physicist."]}

(***************************************************************************)
(* The operations, as a caller of the tools module issues them one after   *)
(* the other                                                               *)
(***************************************************************************)
\* the question runs of the process
Runs == {"A", "B"}

\* A run that is in no call: qid and snapshot belong to a fetch under way,
\* seen holds the ids the searches of the run listed since its own reset,
\* verdict tells how its last fetch ended, own and shared whether the id of
\* that fetch was in seen and in _ALLOWED_QIDS when it was checked.
IdleRun ==
    [pc |-> "idle", qid |-> "", snapshot |-> <<>>, seen |-> {}, verdict |-> "none",
     own |-> FALSE, shared |-> FALSE]

\* the record of a call that has returned, or raised; failed tells whether a
\* remote service raised while the call was under way, hits what the search
\* service found: the id and the description of every row of its answer
Call(op, via, arg, properties, max_rows) ==
    [op |-> op, via |-> via, arg |-> arg, properties |-> properties, max_rows |-> max_rows,
     raised |-> FALSE, ret |-> "", remote |-> 0, listed |-> <<>>, rows |-> <<>>,
     upstream_rows |-> 0, failed |-> FALSE, hits |-> <<>>]

\* The agent before its first question.  resets and tools count the calls of
\* reset_tool_protocol_state and of tools in the run, first_tool_resets is
\* the reset count at the first tool call (-1 before it), seen and escalated
\* are what the run's own tool calls put into the Protocol State, stale tells
\* that a tool call found more than that, left that the run began with state
\* of an earlier run, said is the model's final text, tool_calls the
\* tool_calls of the AgentRun that run_agent_with_capture returns.
IdleAgent ==
    [pc |-> "idle", entry |-> "none", verbose |-> FALSE, question |-> "", script |-> <<>>,
     turn |-> "none", steps |-> 0, messages |-> <<>>, resets |-> 0, tools |-> 0,
     first_tool_resets |-> -1, seen |-> {}, escalated |-> FALSE, stale |-> FALSE,
     left |-> FALSE, limit |-> FALSE, raised |-> FALSE, said |-> "", answer |-> "",
     tool_calls |-> <<>>]

Init ==
    /\ allowed_qids = {}
    /\ qid_to_entity = EmptyMap
    /\ sparql_attempted = FALSE
    /\ last = Call("none", "", "", <<>>, 0)
    /\ returned = {}
    /\ sparql_invoked = FALSE
    /\ revoked = {}
    /\ runs = [r \in Runs |-> IdleRun]
    /\ agent = IdleAgent

\* a reset that clears the flag and leaves the two collections
reset_flag_only ==
    /\ sparql_attempted' = FALSE
    /\ UNCHANGED <<allowed_qids, qid_to_entity>>

\* a reset that leaves the names recorded for the ids
reset_ids_only ==
    /\ allowed_qids' = {}
    /\ sparql_attempted' = FALSE
    /\ UNCHANGED qid_to_entity

\* a reset that is left out
reset_skipped == UNCHANGED protocol

\* reset_tool_protocol_state(): the three assignments, under the lock
reset_tool_protocol_state ==
    /\ allowed_qids' = {}
    /\ qid_to_entity' = EmptyMap
    /\ sparql_attempted' = FALSE

\* a caller resets the Protocol State
Reset ==
    /\ reset_tool_protocol_state
    /\ last' = Call("reset", "", "", <<>>, 0)
    /\ returned' = {}
    /\ sparql_invoked' = FALSE
    /\ revoked' = allowed_qids
    /\ UNCHANGED <<runs, agent>>

\* the rows of the search service's answer: id, description and type facet
RawHits(upstream) ==
    [n \in 1..Len(upstream.bindings) |->
        [qid |-> RSplitLast(upstream.bindings[n]["item"]["value"], "/"),
         description |-> BindingValue(upstream.bindings[n], "itemDescription", ""),
         instance_of |-> BindingValue(upstream.bindings[n], "instanceOfLabel", "")]]

\* search_entity_candidates.invoke(call) with the query service answering upstream
Search(call, upstream) ==
    \E r \in {search_entity_candidates(call.entity_name, call.entity_type, upstream,
                                       allowed_qids, qid_to_entity)} :
    \E listed \in {[n \in 1..Len(r.candidates) |-> r.candidates[n].qid]} :
        /\ allowed_qids' = r.allowed
        /\ qid_to_entity' = r.entity
        /\ last' = [Call("search", "invoke", call.entity_name, <<>>, 0) EXCEPT
                        !.ret = r.ret, !.remote = 1, !.listed = listed,
                        !.failed = upstream.raised, !.hits = RawHits(upstream)]
        /\ returned' = returned \cup {listed[n] : n \in 1..Len(listed)}
        /\ UNCHANGED <<sparql_attempted, sparql_invoked, revoked, runs, agent>>

\* The remote services are asked only by a call that reaches them: each
\* action first finds out, with no answer at hand, whether the body gets
\* that far, and only then takes an answer.
\* a fetch that uses up the authorization of the id it was called with
FetchReturnsOnce(call, raised, r, upstream) ==
    /\ last' = [Call("fetch", call.via, call.qid, call.properties, 0) EXCEPT
                    !.raised = raised, !.ret = r.ret, !.remote = r.remote,
                    !.failed = upstream.raised]
    /\ allowed_qids' = allowed_qids \ {StrUpper(Strip(call.qid))}
    /\ UNCHANGED <<qid_to_entity, sparql_attempted, returned, sparql_invoked, revoked, runs, agent>>

FetchReturns(call, raised, r, upstream) ==
    /\ last' = [Call("fetch", call.via, call.qid, call.properties, 0) EXCEPT
                    !.raised = raised, !.ret = r.ret, !.remote = r.remote,
                    !.failed = upstream.raised]
    /\ UNCHANGED <<protocol, returned, sparql_invoked, revoked, runs, agent>>

\* fetch_entity_properties, through the tool or as the function; a call the
\* argument schema rejects raises and the body does not run
Fetch(call) ==
    \E rejected \in {IF call.via = "invoke"
                     THEN FetchPropertiesInput(call.qid, call.properties) ELSE ""} :
        IF rejected # ""
        THEN FetchReturns(call, TRUE, [ret |-> rejected, remote |-> 0], NotAsked)
        ELSE \E unasked \in {fetch_entity_properties(call.qid, call.properties,
                                call.include_qualifiers, allowed_qids, NotAsked)} :
                IF unasked.remote = 0 THEN FetchReturns(call, unasked.raised, unasked, NotAsked)
                ELSE \E upstream \in FetchUpstreams :
                     \E r \in {fetch_entity_properties(call.qid, call.properties,
                                call.include_qualifiers, allowed_qids, upstream)} :
                        FetchReturns(call, r.raised, r, upstream)

SparqlReturns(call, raised, r, upstream) ==
    /\ last' = [Call("sparql", call.via, call.sparql, <<>>, call.max_rows) EXCEPT
                    !.raised = raised, !.ret = r.ret, !.remote = r.remote,
                    !.rows = r.rows, !.upstream_rows = Len(upstream.bindings),
                    !.failed = upstream.raised]
    /\ sparql_attempted' = IF r.marked THEN TRUE ELSE sparql_attempted
    /\ sparql_invoked' = TRUE
    /\ UNCHANGED <<allowed_qids, qid_to_entity, returned, revoked, runs, agent>>

\* wikidata_sparql.invoke(call), the query service giving one of the answers
SparqlWith(call, answers) ==
    \E rejected \in {IF call.via = "invoke"
                     THEN SparqlInput(call.sparql, call.max_rows) ELSE ""} :
        IF rejected # ""
        THEN SparqlReturns(call, TRUE,
                [ret |-> rejected, marked |-> FALSE, remote |-> 0, rows |-> <<>>], NotAsked)
        ELSE \E unasked \in {wikidata_sparql(call.sparql, call.max_rows, NotAsked)} :
                IF unasked.remote = 0 THEN SparqlReturns(call, FALSE, unasked, NotAsked)
                ELSE \E upstream \in answers :
                     \E r \in {wikidata_sparql(call.sparql, call.max_rows, upstream)} :
                        SparqlReturns(call, FALSE, r, upstream)

Sparql(call) == SparqlWith(call, SparqlUpstreams)

WikiReturns(call, r, failed) ==
    /\ last' = [Call("wiki", "invoke", call.qid, <<>>, 0) EXCEPT
                    !.ret = r.ret, !.remote = r.remote, !.failed = failed]
    /\ UNCHANGED <<protocol, returned, sparql_invoked, revoked, runs, agent>>

\* fetch_wikipedia_article_tool.invoke(call): the title lookup, then the
\* article fetch
Wiki(call) ==
    \E unasked \in {fetch_wikipedia_article_tool(call.qid, call.entity_name,
                        sparql_attempted, NotAsked, NoDocument)} :
        IF unasked.remote = 0 THEN WikiReturns(call, unasked, FALSE)
        ELSE \E upstream \in TitleUpstreams :
             \E untitled \in {fetch_wikipedia_article_tool(call.qid, call.entity_name,
                                sparql_attempted, upstream, NoDocument)} :
                IF untitled.remote = 1 THEN WikiReturns(call, untitled, upstream.raised)
                ELSE \E document \in Documents :
                     \E r \in {fetch_wikipedia_article_tool(call.qid, call.entity_name,
                                sparql_attempted, upstream, document)} :
                        WikiReturns(call, r, document.raised)

Next ==
    \/ Reset
    \/ \E call \in SearchCalls, upstream \in SearchUpstreams : Search(call, upstream)
    \/ \E call \in FetchCalls : Fetch(call)
    \/ \E call \in SparqlCalls : Sparql(call)
    \/ \E call \in WikiCalls : Wiki(call)

Spec == Init /\ [][Next]_vars

(***************************************************************************)
(* Properties of the tool protocol, checked under Spec                     *)
(***************************************************************************)
\* the identifier a call names, as the tools compare it
Normalized(qid) == StrUpper(Strip(qid))

ProtocolViolation(ret) == StartsWithAt(ret, 1, "Error: Tool-order protocol violation.")
IdentifierError(ret) == StartsWithAt(ret, 1, "Error: Invalid QID")

\* the last call was a fetch that got past the authorization check
PastAuthorization ==
    /\ last.op = "fetch"
    /\ ~last.raised
    /\ ~ProtocolViolation(last.ret)
    /\ ~IdentifierError(last.ret)

\* C1: a fetch_entity_properties call gets past the authorization check only
\* if its identifier was in the candidate list some search_entity_candidates
\* call returned since the most recent reset.  Identifiers are compared the
\* way the tools compare them, trimmed and in capitals.
C1_AuthorizationInvariant ==
    PastAuthorization => Normalized(last.arg) \in {Normalized(x) : x \in returned}

\* a fetch of a listed identifier ran its query
C1_AuthorizedFetchRan ==
    /\ PastAuthorization
    /\ last.remote = 1
    /\ Normalized(last.arg) \in returned

\* C2: after reset_tool_protocol_state the Protocol State is the initial
\* one, and a fetch of an identifier that was authorized before the reset
\* returns the protocol-violation error, without a query, until a search
\* lists the identifier again; then the fetch gets past the check.
C2_ResetRevokes ==
    /\ last.op = "reset" => protocol = InitialProtocolState
    /\ (last.op = "fetch" /\ last.arg \in revoked /\ last.arg \notin returned)
            => ~last.raised /\ ProtocolViolation(last.ret) /\ last.remote = 0
    /\ (last.op = "fetch" /\ last.arg \in revoked /\ last.arg \in returned)
            => PastAuthorization

\* an identifier authorized before the reset is fetched after it, while other
\* identifiers are authorized again
C2_RevokedFetchRejected ==
    /\ last.op = "fetch"
    /\ last.arg \in revoked
    /\ last.arg \notin returned
    /\ returned # {}
    /\ ProtocolViolation(last.ret)

\* C3: while no wikidata_sparql call was made since the last reset, a
\* fetch_wikipedia_article call returns the error that asks for
\* wikidata_sparql first and makes no title lookup and no article fetch.
C3_EscalationGateRejects ==
    (last.op = "wiki" /\ ~sparql_invoked)
        => last.ret = EscalationFirstError /\ last.remote = 0

\* the article of an authorized identifier is asked for before any escalation
C3_ArticleBeforeEscalation ==
    /\ last.op = "wiki"
    /\ ~sparql_invoked
    /\ allowed_qids # {}
    /\ last.ret = EscalationFirstError

\* C4 as stated: once wikidata_sparql has been invoked since the last reset,
\* whatever the outcome of the call, the flag is true and a
\* fetch_wikipedia_article call passes the gate.
C4_FlagOnceInvoked ==
    sparql_invoked =>
        /\ sparql_attempted
        /\ last.op = "wiki" => last.ret # EscalationFirstError

\* the query a wikidata_sparql call carried passes validation
ValidatedCall(call) ==
    call.op = "sparql" /\ ~call.raised /\ is_safe_read_only_select(call.arg).ok

\* C4, amended: a wikidata_sparql call whose query passes validation sets the
\* flag whatever the execution gives (rows, no rows, an error of the query
\* service); the flag stays set until the next reset, and while it is set
\* every fetch_wikipedia_article call passes the gate.
C4_FlagOnceValidated ==
    [][ /\ ValidatedCall(last') => sparql_attempted'
        /\ (sparql_attempted /\ last'.op # "reset") => sparql_attempted'
        /\ (sparql_attempted /\ last'.op = "wiki") => last'.ret # EscalationFirstError
      ]_vars

\* the query service failed on a validated query and the flag is set
C4_FlaggedAfterFailure ==
    /\ last.op = "sparql"
    /\ StartsWithAt(last.ret, 1, "SPARQL error: ")
    /\ sparql_attempted

\* C7: a wikidata_sparql call whose query fails validation returns the
\* validation error, issues no remote query and leaves the Protocol State as
\* it was; the flag goes from false to true only in a call whose query passed
\* validation, and it is set also when the execution of that query fails.
C7_RejectedBeforeExecution ==
    [][ /\ (last'.op = "sparql" /\ ~last'.raised /\ ~is_safe_read_only_select(last'.arg).ok)
            => /\ last'.ret = is_safe_read_only_select(last'.arg).error
               /\ last'.remote = 0
               /\ protocol' = protocol
        /\ (last'.op = "sparql" /\ ~sparql_attempted /\ sparql_attempted')
            => ValidatedCall(last') /\ last'.remote = 1
        /\ (ValidatedCall(last') /\ StartsWithAt(last'.ret, 1, "SPARQL error: "))
            => sparql_attempted'
      ]_vars

\* a mutation query was rejected while the flag was not set
C7_MutationRejected ==
    /\ last.op = "sparql"
    /\ last.ret = "Error: SPARQL update/mutation keywords are not allowed."
    /\ last.remote = 0
    /\ ~sparql_attempted

\* an identifier that is an expression: it contains brackets, parentheses,
\* braces or a call of search_entity_candidates
ExpressionLike(qid) ==
    \E piece \in {"[", "]", "(", ")", "{", "}", "search_entity_candidates("} :
        Contains(qid, piece)

\* C9 as stated: in every protocol state a fetch_entity_properties call whose
\* identifier is an expression returns the error that asks for a literal
\* identifier, which differs from the error for a malformed identifier.
C9_ExpressionGetsLiteralError ==
    (last.op = "fetch" /\ ExpressionLike(last.arg))
        => /\ ~last.raised
           /\ last.ret = LiteralQidError
           /\ last.ret # InvalidQidError(Normalized(last.arg))

\* Q followed by digits, after trimming and capitalizing
WellFormed(qid) == IsLiteralQid(Normalized(qid))

\* the requested codes, flattened, trimmed and in capitals, that the catalog knows
KnownProperties(properties) ==
    {n \in 1..Len(properties) :
        /\ properties[n].items # <<>>
        /\ Normalized(properties[n].items[1]) \in DOMAIN WIKIDATA_PROPERTIES}

\* C10 as stated: fetch_entity_properties checks the shape of the
\* identifier, then its authorization, then the property codes, and returns
\* the error of the first check that fails.
C10_PreconditionOrder ==
    last.op = "fetch" =>
        /\ ~last.raised
        /\ ~WellFormed(last.arg) => IdentifierError(last.ret)
        /\ (WellFormed(last.arg) /\ Normalized(last.arg) \notin allowed_qids)
                => ProtocolViolation(last.ret)
        /\ (WellFormed(last.arg) /\ Normalized(last.arg) \in allowed_qids
                /\ KnownProperties(last.properties) = {})
                => last.ret = "Error: No valid properties specified."

(***************************************************************************)
(* Query validation, applied to queries put together from a prologue of    *)
(* PREFIX declarations, a query form and a body                            *)
(***************************************************************************)
\* a query carries at most MaxPrefixes declarations
MaxPrefixes == 2

PrefixDeclaration(n) ==
    (IF n % 2 = 1 THEN "PREFIX p" ELSE "prefix p") \o ToString(n)
        \o ": <http://example.org/" \o ToString(n) \o "/>"

RECURSIVE Prologue(_, _)
\* n declarations, each followed by sep
Prologue(n, sep) ==
    IF n = 0 THEN "" ELSE Prologue(n - 1, sep) \o PrefixDeclaration(n) \o sep

QueryLeads == {"", " \n"}
QueryForms == {"SELECT", "select", "SELECTED", "ASK", "INSERT", ""}
QueryBodies ==
    {" ?x WHERE { ?x ?p ?o }",
     " ?x { ?x p1:add ?y }",
     " ?address { }",
     " { ?s ?p ?o } # SELECT ?x",
     ""}

ValidationQueries ==
    {lead \o Prologue(n, sep) \o form \o body :
        lead \in QueryLeads, n \in 0..MaxPrefixes, sep \in {"\n", " "},
        form \in QueryForms, body \in QueryBodies}

InitValidation ==
    /\ allowed_qids = {}
    /\ qid_to_entity = EmptyMap
    /\ sparql_attempted = FALSE
    /\ last \in {Call("query", "func", q, <<>>, 0) : q \in ValidationQueries}
    /\ returned = {}
    /\ sparql_invoked = FALSE
    /\ revoked = {}
    /\ runs = [r \in Runs |-> IdleRun]
    /\ agent = IdleAgent

\* is_safe_read_only_select(last.arg): ret is the error, "" when the query is accepted
Validate ==
    /\ last.op = "query"
    /\ \E valid \in {is_safe_read_only_select(last.arg)} :
            last' = [last EXCEPT !.op = "validated", !.ret = valid.error,
                                 !.raised = ~valid.ok]
    /\ UNCHANGED <<protocol, returned, sparql_invoked, revoked, runs, agent>>

SpecValidation == InitValidation /\ [][Validate]_vars

\* one of the mutation keywords stands in the text as a whole word
HasMutationWord(text) ==
    \E i \in 1..Len(text) :
        /\ ~IsWordAt(text, i - 1)
        /\ \E j \in i..Len(text) :
            /\ ~IsWordAt(text, j + 1)
            /\ \A n \in i..j : IsWordAt(text, n)
            /\ StrUpper(SubSeq(text, i, j)) \in BlockedKeywords

RECURSIVE PrologueEnd(_, _)
\* The position where the query form starts: after the whitespace and the
\* PREFIX declarations (PREFIX, a name, a colon, an IRI in angle brackets,
\* whitespace) that start at i.
PrologueEnd(text, i) ==
    LET at == FirstInk(text, i)
        name == FirstInk(text, at + 6)
        colon == IndexIn(text, ":", name)
        open == FirstInk(text, colon + 1)
        close == IndexIn(text, ">", open)
    IN  IF /\ StartsWithAt(StrUpper(text), at, "PREFIX")
           /\ name > at + 6
           /\ colon > 0
           /\ \A n \in name..(colon - 1) : IsWordCh(Ch(text, n))
           /\ StartsWithAt(text, open, "<")
           /\ close > 0
           /\ \A n \in open..close : ~IsSpace(Ch(text, n))
           /\ close < Len(text)
           /\ IsSpace(Ch(text, close + 1))
        THEN PrologueEnd(text, close + 1)
        ELSE at

\* the text begins with zero or more PREFIX declarations followed by SELECT
BeginsWithSelect(text) ==
    LET at == PrologueEnd(text, 1)
    IN  StartsWithAt(StrUpper(text), at, "SELECT") /\ ~IsWordAt(text, at + 6)

\* C6 as stated: is_safe_read_only_select accepts a query exactly when it is
\* not empty after trimming, holds no mutation keyword as a whole word and
\* begins with zero or more PREFIX declarations followed by SELECT; a
\* rejected query gets the error of the first of these checks that fails.
C6_ValidationExact ==
    last.op = "validated" =>
        LET query == Strip(last.arg)
        IN  /\ (last.ret = "") <=>
                    (query # "" /\ ~HasMutationWord(query) /\ BeginsWithSelect(query))
            /\ query = "" => last.ret = "Error: Empty SPARQL query."
            /\ (query # "" /\ HasMutationWord(query))
                    => last.ret = "Error: SPARQL update/mutation keywords are not allowed."
            /\ (query # "" /\ ~HasMutationWord(query) /\ ~BeginsWithSelect(query))
                    => last.ret = "Error: Only read-only SELECT queries are allowed."


(***************************************************************************)
(* The row cap of Query Escalation: one validated query, a result of any   *)
(* length up to MaxResultRows, a requested number below, at and above the  *)
(* cap                                                                     *)
(***************************************************************************)
MaxResultRows == 150

RequestedRows == {1, 2, 50, 99, 100, 101, 1000}

RowsQuery == "SELECT ?item WHERE { ?item ?p ?o }"

\* the id the query service gives in its row number n, counted from 0
RowId(n) == "Q" \o ToString(n)

\* a result of n rows
RowList(n) == [i \in 1..n |-> [item |-> Value(RowId(i - 1))]]

SparqlOnce(n, max_rows) ==
    /\ last.op = "none"
    /\ SparqlWith([via |-> "invoke", sparql |-> RowsQuery, max_rows |-> max_rows],
                  {Answered(RowList(n), <<"item">>)})

NextRows == \E n \in 0..MaxResultRows, max_rows \in RequestedRows : SparqlOnce(n, max_rows)

SpecRows == Init /\ [][NextRows]_vars

\* C8: a validated query with max_rows >= 1 against a result of N rows returns
\* exactly the first min(max_rows, 100, N) rows in upstream order, without an
\* error: the rows are those numbered 0 .. min - 1, the text returned holds
\* the last of them and not the one after it.
C8_RowCap ==
    (last.op = "sparql" /\ last.max_rows >= 1 /\ is_safe_read_only_select(last.arg).ok)
        => LET kept == Min(Min(last.max_rows, 100), last.upstream_rows)
           IN  /\ ~last.raised
               /\ last.rows = [i \in 1..kept |-> [item |-> RowId(i - 1)]]
               /\ IF kept = 0 THEN last.ret = "Query returned no results."
                  ELSE /\ Contains(last.ret, "\"" \o RowId(kept - 1) \o "\"")
                       /\ ~Contains(last.ret, "\"" \o RowId(kept) \o "\"")

\* 1000 rows were requested of a result of 150: rows 0..99 came back
C8_ClippedAtCap ==
    /\ last.op = "sparql"
    /\ last.max_rows = 1000
    /\ last.upstream_rows = 150
    /\ Len(last.rows) = 100
    /\ last.rows[100].item = "Q99"
    /\ ~Contains(last.ret, "\"Q100\"")

(***************************************************************************)
(* Two question runs in one process.  Each run starts as answer_question   *)
(* and run_agent_with_capture do, with a reset, and then calls the tools;  *)
(* the state of the tools module is the one the runs share.  A step is     *)
(* what a run does while it holds _STATE_LOCK or between two acquisitions: *)
(* fetch_entity_properties takes the lock twice, in get_authorized_qids()  *)
(* and in is_qid_authorized(), and is two steps.                           *)
(***************************************************************************)
RunSearches ==
    {[call |-> [entity_name |-> "France", entity_type |-> ""],
      upstream |-> Answered(<<[item |-> Value(EntityUri("Q1")),
                               itemLabel |-> Value("France"),
                               itemDescription |-> Value("country in Western Europe"),
                               instanceOfLabel |-> Value("sovereign state")]>>, SearchVars)],
     [call |-> [entity_name |-> "Paris", entity_type |-> "city"],
      upstream |-> Answered(<<[item |-> Value(EntityUri("Q2")),
                               itemLabel |-> Value("Paris"),
                               itemDescription |-> Value("capital of France"),
                               instanceOfLabel |-> Value("city")]>>, SearchVars)]}

RunFetchCalls ==
    {[qid |-> q, properties |-> <<Str("P36")>>, include_qualifiers |-> TRUE] : q \in {"Q1", "Q2"}}

RunStep(r, run) ==
    /\ runs' = [runs EXCEPT ![r] = run]
    /\ UNCHANGED <<last, returned, sparql_invoked, revoked, agent>>

\* the run begins a question: reset_tool_protocol_state()
RunReset(r) ==
    /\ runs[r].pc = "idle"
    /\ reset_tool_protocol_state
    /\ RunStep(r, [IdleRun EXCEPT !.pc = "running"])

\* the run's agent calls search_entity_candidates
RunSearch(r, s) ==
    /\ runs[r].pc = "running"
    /\ \E res \in {search_entity_candidates(s.call.entity_name, s.call.entity_type,
                                            s.upstream, allowed_qids, qid_to_entity)} :
        /\ allowed_qids' = res.allowed
        /\ qid_to_entity' = res.entity
        /\ UNCHANGED sparql_attempted
        /\ RunStep(r, [runs[r] EXCEPT !.seen = @ \cup {res.candidates[n].qid :
                                                    n \in 1..Len(res.candidates)}])

\* the run's agent calls fetch_entity_properties: up to get_authorized_qids()
RunFetchBegin(r, call) ==
    /\ runs[r].pc = "running"
    /\ UNCHANGED protocol
    /\ IF FetchPropertiesInput(call.qid, call.properties) # ""
       THEN RunStep(r, [runs[r] EXCEPT !.verdict = "raised", !.qid = call.qid])
       ELSE RunStep(r, [runs[r] EXCEPT !.pc = "fetching", !.qid = call.qid,
                                       !.snapshot = get_authorized_qids(allowed_qids, 15)])

\* how a fetch that returned ret ended
Verdict(ret) ==
    IF Contains(ret, "Tool-order protocol violation") THEN "unauthorized"
    ELSE IF StartsWithAt(ret, 1, "Error: Invalid QID format") THEN "malformed"
    ELSE "passed"

\* the rest of fetch_entity_properties, from the check on the list read at
\* the start to the return
RunFetchFinish(r, upstream) ==
    /\ runs[r].pc = "fetching"
    /\ UNCHANGED protocol
    /\ \E early \in {FetchEarlyReturn(runs[r].qid, runs[r].snapshot)} :
       \E res \in {IF early # "" THEN [ret |-> early, remote |-> 0]
                   ELSE FetchAfterShape(runs[r].qid, <<Str("P36")>>, TRUE, runs[r].snapshot,
                                        allowed_qids, upstream)} :
        RunStep(r, [runs[r] EXCEPT !.pc = "running", !.snapshot = <<>>,
                        !.verdict = Verdict(res.ret),
                        !.own = Normalized(runs[r].qid) \in runs[r].seen,
                        !.shared = Normalized(runs[r].qid) \in allowed_qids])

\* the question is answered; the run may take another
RunEnd(r) ==
    /\ runs[r].pc = "running"
    /\ UNCHANGED protocol
    /\ RunStep(r, IdleRun)

NextRuns ==
    \E r \in Runs :
        \/ RunReset(r)
        \/ \E s \in RunSearches : RunSearch(r, s)
        \/ \E call \in RunFetchCalls : RunFetchBegin(r, call)
        \/ \E upstream \in FetchUpstreams : RunFetchFinish(r, upstream)
        \/ RunEnd(r)

SpecRuns == Init /\ [][NextRuns]_vars

\* C5: the lock makes each single operation atomic (the two collections change
\* together, so every id with a recorded name is an authorized id, and a fetch
\* passes the authorization check only on an id that is in the shared set at
\* that moment), but it does not isolate the runs: the shared set is not the
\* run's own, and the states of C5_LeakAndRevoke are reachable.
C5_OperationsAtomic ==
    /\ DOMAIN qid_to_entity \subseteq allowed_qids
    /\ \A r \in Runs : runs[r].verdict = "passed" => runs[r].shared

\* run B's fetch succeeded for an id that only run A's search returned, and
\* run A's fetch of an id it searched was rejected after run B's reset
C5_LeakAndRevoke ==
    /\ runs["B"].verdict = "passed" /\ ~runs["B"].own
    /\ runs["B"].qid \in runs["A"].seen
    /\ runs["A"].verdict = "unauthorized" /\ runs["A"].own

(***************************************************************************)
(* Errors at the tool boundary, checked under Spec                         *)
(***************************************************************************)
\* C11 as stated: a fetch_entity_properties tool invocation with a malformed
\* or an unauthorized identifier, and a fetch_wikipedia_article invocation
\* before any escalation, returns a descriptive error string and never raises.
C11_ViolationsNeverRaise ==
    /\ (last.op = "fetch" /\ last.via = "invoke"
            /\ (~WellFormed(last.arg) \/ Normalized(last.arg) \notin allowed_qids))
        => ~last.raised /\ StartsWithAt(last.ret, 1, "Error: ")
    /\ (last.op = "wiki" /\ ~sparql_attempted)
        => ~last.raised /\ StartsWithAt(last.ret, 1, "Error: ")

\* the sentinel of a search that cannot verify the entity
CannotBeVerified(ret) ==
    /\ StartsWithAt(ret, 1, "NO CANDIDATES FOUND for '")
    /\ Contains(ret, "Entity cannot be verified in Wikidata.")

\* C12: a call of one of the four tools during which a remote service raised
\* does not raise: it returns the string its except clause builds.  For
\* search_entity_candidates that is the sentinel of zero candidates, and no
\* identifier is listed or registered.
C12_RemoteFailureCaught ==
    [][ last'.failed =>
            /\ ~last'.raised
            /\ last'.op \in {"search", "fetch", "sparql", "wiki"}
            /\ last'.op = "search" =>
                    /\ CannotBeVerified(last'.ret)
                    /\ last'.listed = <<>>
                    /\ allowed_qids' = allowed_qids /\ qid_to_entity' = qid_to_entity
            /\ last'.op = "fetch" =>
                    last'.ret = "Error fetching properties for " \o Normalized(last'.arg)
                                    \o ": timed out"
            /\ last'.op = "sparql" => last'.ret = "SPARQL error: timed out"
            /\ last'.op = "wiki" =>
                    \/ StartsWithAt(last'.ret, 1, "No Wikipedia article found for ")
                    \/ StartsWithAt(last'.ret, 1, "Could not fetch Wikipedia article for ")
      ]_vars

\* the query service failed under a search made while an identifier was authorized
C12_SearchFailedQuietly ==
    /\ last.op = "search"
    /\ last.failed
    /\ CannotBeVerified(last.ret)
    /\ allowed_qids # {}

(***************************************************************************)
(* Entity Search on answers of the search service of up to MaxHits rows:   *)
(* places, films and Wikimedia housekeeping pages in several mixes, for two *)
(* entity names, with and without a type hint                              *)
(***************************************************************************)
\* the search service answers with at most MaxHits rows
MaxHits == 12

\* the second search is made while at most MaxAuthorizedBefore ids are authorized
MaxAuthorizedBefore == 2

\* row i of the answer for the name whose ids start at base
Hit(base, i, kind) ==
    LET item == [item |-> Value(EntityUri("Q" \o ToString(base + i)))]
    IN  IF kind = "city"
        THEN item @@ [itemLabel |-> Value("Springfield"),
                      itemDescription |-> Value("city in the United States"),
                      instanceOfLabel |-> Value("city")]
        ELSE IF kind = "film"
        THEN item @@ [itemLabel |-> Value("Springfield"),
                      itemDescription |-> Value("2010 film"),
                      instanceOfLabel |-> Value("film")]
        ELSE IF kind = "category"
        THEN item @@ [itemLabel |-> Value("Category:Springfield"),
                      itemDescription |-> Value("Wikimedia category")]
        ELSE item @@ [itemLabel |-> Value("Springfield"),
                      itemDescription |-> Value("Wikimedia disambiguation page")]

\* the kind of row i in each mix
HitMixes ==
    [places |-> [i \in 1..(MaxHits + 1) |-> "city"],
     pages |-> [i \in 1..(MaxHits + 1) |-> IF i % 2 = 0 THEN "category" ELSE "disambiguation"],
     mixed |-> [i \in 1..(MaxHits + 1) |->
                    IF i % 3 = 1 THEN "disambiguation" ELSE IF i % 3 = 2 THEN "film" ELSE "city"]]

HitLists(base) ==
    {[i \in 1..n |-> Hit(base, i, HitMixes[mix][i])] : n \in 0..MaxHits, mix \in DOMAIN HitMixes}

\* the searches: a call and what the search service answers to it
HitSearches ==
    {[call |-> [entity_name |-> "Springfield", entity_type |-> ""],
      upstream |-> Answered(rows, SearchVars)] : rows \in HitLists(100)}
    \cup
    {[call |-> [entity_name |-> "Shelbyville", entity_type |-> "city"],
      upstream |-> Answered(rows, SearchVars)] : rows \in HitLists(200)}

\* the run searches the first name and then, with some ids authorized, the second
SearchHits(s) ==
    /\ \/ last.op = "none" /\ s.call.entity_name = "Springfield"
       \/ /\ last.arg = "Springfield" /\ s.call.entity_name = "Shelbyville"
          /\ Cardinality(allowed_qids) \in 1..MaxAuthorizedBefore
    /\ Search(s.call, s.upstream)

NextSearch == \E s \in HitSearches : SearchHits(s)

SpecSearch == Init /\ [][NextSearch]_vars

\* the ids the search service gave with the description of a housekeeping page
MetaHits(call) ==
    {call.hits[n].qid : n \in {k \in 1..Len(call.hits) : call.hits[k].description \in wikimedia_types}}

\* C15: no hit whose description is one of the Wikimedia housekeeping types
\* is in the list search_entity_candidates returns or gets registered, and
\* when every hit is such a page the result is the zero-candidates sentinel.
C15_MetaTypesFiltered ==
    [][ last'.op = "search" =>
            /\ \A n \in 1..Len(last'.listed) : last'.listed[n] \notin MetaHits(last')
            /\ \A t \in wikimedia_types : ~Contains(last'.ret, t)
            /\ (allowed_qids' \ allowed_qids) \cap MetaHits(last') = {}
            /\ (\A n \in 1..Len(last'.hits) : last'.hits[n].qid \in MetaHits(last'))
                    => /\ CannotBeVerified(last'.ret)
                       /\ last'.listed = <<>>
                       /\ allowed_qids' = allowed_qids
      ]_vars

\* a search whose hits were all housekeeping pages returned the sentinel
C15_OnlyMetaHits ==
    /\ last.op = "search"
    /\ Len(last.hits) >= 2
    /\ \A n \in 1..Len(last.hits) : last.hits[n].qid \in MetaHits(last)
    /\ CannotBeVerified(last.ret)

\* the ids of a list of hits or candidates
Ids(list) == {list[n] : n \in 1..Len(list)}

\* C16: after search_entity_candidates the authorized ids are those of before
\* united with the ids of the list returned, whatever name was searched; the
\* list holds at most MAX_SEARCH_RESULTS of the hits, so hits that were
\* filtered or cut away are not added.
C16_ReturnedIdsAuthorized ==
    [][ last'.op = "search" =>
            /\ allowed_qids' = allowed_qids \cup Ids(last'.listed)
            /\ Len(last'.listed) <= MAX_SEARCH_RESULTS
            /\ Ids(last'.listed) \subseteq {last'.hits[n].qid : n \in 1..Len(last'.hits)}
            /\ \A n \in 1..Len(last'.hits) :
                    (last'.hits[n].qid \notin Ids(last'.listed)
                        /\ last'.hits[n].qid \notin allowed_qids)
                    => last'.hits[n].qid \notin allowed_qids'
      ]_vars

\* a search for a second name returned ten of its twelve hits while ids of
\* the first name were authorized: the ten were added, the other two not
C16_TruncatedSecondSearch ==
    /\ last.op = "search"
    /\ last.arg = "Shelbyville"
    /\ Len(last.hits) = 12
    /\ Len(last.listed) = 10
    /\ "Q212" \notin allowed_qids
    /\ "Q101" \in allowed_qids
    /\ Ids(last.listed) \subseteq allowed_qids

(***************************************************************************)
(* The formatter of Property Fetch on the statements of one property: rows *)
(* that repeat or differ in the value or in one of the three qualifiers    *)
(***************************************************************************)
\* the lists drawn from all statements hold at most MaxStatementRows rows
MaxStatementRows == 3

\* value, start time, end time, point in time; "" for an unbound variable
Statements ==
    {<<"IBM", "", "", "">>,
     <<"Bell Labs", "", "", "">>,
     <<"IBM", "1990-01-01T00:00:00Z", "", "">>,
     <<"IBM", "", "1999-12-31T00:00:00Z", "">>,
     <<"IBM", "", "", "1995-06-01T00:00:00Z">>,
     <<"IBM", "1990-01-01T00:00:00Z", "1999-12-31T00:00:00Z", "">>}

\* the row of the query's result for a statement of P108
StatementRow(t) ==
    [itemLabel |-> Value("Ada Example")]
    @@ [p108ValueLabel |-> Value(t[1])]
    @@ (IF t[2] # "" THEN [p108P580 |-> Value(t[2])] ELSE <<>>)
    @@ (IF t[3] # "" THEN [p108P582 |-> Value(t[3])] ELSE <<>>)
    @@ (IF t[4] # "" THEN [p108P585 |-> Value(t[4])] ELSE <<>>)

\* every statement once, in a fixed order, and that list with each row twice
LongStatementLists ==
    LET all == <<<<"IBM", "", "", "">>, <<"Bell Labs", "", "", "">>,
                 <<"IBM", "1990-01-01T00:00:00Z", "", "">>,
                 <<"IBM", "", "1999-12-31T00:00:00Z", "">>,
                 <<"IBM", "", "", "1995-06-01T00:00:00Z">>,
                 <<"IBM", "1990-01-01T00:00:00Z", "1999-12-31T00:00:00Z", "">>>>
    IN  {SubSeq(all, 1, n) : n \in 4..6}
        \cup {[i \in 1..(2 * n) |-> all[(i + 1) \div 2]] : n \in 2..3}

StatementLists ==
    UNION {[1..n -> Statements] : n \in 1..MaxStatementRows} \cup LongStatementLists

\* The statements to format are in listed, include_qualifiers is in via
\* ("qualifiers" or "values").
InitFormat ==
    /\ allowed_qids = {}
    /\ qid_to_entity = EmptyMap
    /\ sparql_attempted = FALSE
    /\ last \in {[Call("statements", via, "Q7259", <<Str("P108")>>, 0) EXCEPT !.listed = list] :
                    via \in {"qualifiers", "values"}, list \in StatementLists}
    /\ returned = {}
    /\ sparql_invoked = FALSE
    /\ revoked = {}
    /\ runs = [r \in Runs |-> IdleRun]
    /\ agent = IdleAgent

\* format_property_results(bindings, ["P108"], qid, include_qualifiers)
Format ==
    /\ last.op = "statements"
    /\ \E text \in {format_property_results(
                        [n \in 1..Len(last.listed) |-> StatementRow(last.listed[n])],
                        <<"P108">>, last.arg, last.via = "qualifiers").text} :
            last' = [last EXCEPT !.op = "formatted", !.ret = text]
    /\ UNCHANGED <<protocol, returned, sparql_invoked, revoked, runs, agent>>

SpecFormat == InitFormat /\ [][Format]_vars

\* how many times pat stands in text
CountOf(text, pat) == Cardinality({i \in 1..Len(text) : StartsWithAt(text, i, pat)})

\* the entries rendered for the property: the lines of a list, or the one
\* entry of the one-line form
RenderedEntries(text) ==
    IF Contains(text, "\nP108: employer:\n") THEN CountOf(text, "\n  - ")
    ELSE IF Contains(text, "\nP108: employer " \o EmDash \o " ") THEN 1
    ELSE 0

\* C17: rows of a property that agree on value, start time, end time and
\* point in time are rendered as one entry, rows that differ in one of the
\* four are separate entries: the entries are the distinct rows, of which
\* the first five are rendered, so a row repeated is rendered once.
C17_DuplicateRowsCollapse ==
    last.op = "formatted" =>
        LET distinct == Ids(last.listed)
        IN  /\ RenderedEntries(last.ret) = Min(Cardinality(distinct), 5)
            /\ Cardinality(distinct) = 1 =>
                    \/ last.ret = "Entity: Ada Example\nQID: Q7259\n\nP108: employer "
                                    \o EmDash \o " " \o last.listed[1][1]
                    \/ /\ last.listed[1][2] \o last.listed[1][3] \o last.listed[1][4] # ""
                       /\ last.via = "qualifiers"
                       /\ CountOf(last.ret, "\n  - " \o last.listed[1][1] \o " (") = 1

\* the same statement, with a qualifier, was fed three times and rendered once
C17_RepeatedRowRenderedOnce ==
    /\ last.op = "formatted"
    /\ last.via = "qualifiers"
    /\ Len(last.listed) = 3
    /\ Ids(last.listed) = {<<"IBM", "1990-01-01T00:00:00Z", "", "">>}
    /\ last.ret = "Entity: Ada Example\nQID: Q7259\n\nP108: employer:\n  - IBM (start: 1990-01-01)"

(***************************************************************************)
(* The frame of the Protocol State, checked under Spec                     *)
(***************************************************************************)
\* C19: _ALLOWED_QIDS changes only in a reset and in search_entity_candidates,
\* the escalation flag only in a reset and in wikidata_sparql;
\* fetch_entity_properties and fetch_wikipedia_article change neither on any
\* path, a search leaves the flag and an escalation leaves the ids as they are.
C19_ProtocolStateFrame ==
    [][ /\ allowed_qids' # allowed_qids => last'.op \in {"reset", "search"}
        /\ sparql_attempted' # sparql_attempted => last'.op \in {"reset", "sparql"}
        /\ last'.op \in {"fetch", "wiki"} =>
                allowed_qids' = allowed_qids /\ sparql_attempted' = sparql_attempted
        /\ last'.op = "search" => sparql_attempted' = sparql_attempted
        /\ last'.op = "sparql" => allowed_qids' = allowed_qids
      ]_vars

\* the query service failed under the fetch of an authorized id while the
\* flag was set: the id is still authorized and the flag still set
C19_FailedFetchKeepsState ==
    /\ last.op = "fetch"
    /\ last.failed
    /\ Normalized(last.arg) \in allowed_qids
    /\ sparql_attempted


(***************************************************************************)
(* Regular expressions: Python's re, as kb_project/wikidata_rag_agent.py   *)
(* uses it.  A pattern is a tree; Ends gives the positions at which a      *)
(* match that starts at i can end, in the order in which the backtracking  *)
(* matcher tries them, so the first one is the match re finds.             *)
(***************************************************************************)
\* character classes
Space == [kind |-> "space", cs |-> {}]
Digit == [kind |-> "digit", cs |-> {}]
AnyCh == [kind |-> "any", cs |-> {}]
LineCh == [kind |-> "line", cs |-> {}]
In(cs) == [kind |-> "in", cs |-> cs]
NotIn(cs) == [kind |-> "notin", cs |-> cs]

Has(cls, c) ==
    CASE cls.kind = "space" -> IsSpace(c)
      [] cls.kind = "digit" -> IsDigit(c)
      [] cls.kind = "any" -> TRUE
      [] cls.kind = "line" -> c # "\n"
      [] cls.kind = "in" -> c \in cls.cs
      [] cls.kind = "notin" -> c \notin cls.cs

\* pattern nodes; most = -1 stands for no upper limit
Lit(str) == [t |-> "lit", s |-> str]
Rep(cls, least, most, greedy) ==
    [t |-> "rep", c |-> cls, least |-> least, most |-> most, greedy |-> greedy]
One(cls) == Rep(cls, 1, 1, TRUE)
Maybe(cls) == Rep(cls, 0, 1, TRUE)
Seqn(xs) == [t |-> "seq", xs |-> xs]
Alt(xs) == [t |-> "alt", xs |-> xs]
Empty == Seqn(<<>>)
Opt(x) == Alt(<<x, Empty>>)
WordEdge == [t |-> "wb"]
Bos == [t |-> "bos"]
Eos == [t |-> "eos"]
Behind(cls) == [t |-> "behind", c |-> cls]
S0 == Rep(Space, 0, -1, TRUE)
S1 == Rep(Space, 1, -1, TRUE)
Lazy == Rep(AnyCh, 0, -1, FALSE)

\* the number of characters of the class at s[i..], counted up to most
RunLen(s, i, cls, most) ==
    LET top == IF most < 0 THEN Len(s) + 1 ELSE Min(Len(s) + 1, i + most)
        stop == CHOOSE k \in i..top :
                    /\ \A j \in i..(k - 1) : Has(cls, Ch(s, j))
                    /\ k = top \/ ~Has(cls, Ch(s, k))
    IN  stop - i

RECURSIVE Flat(_)
\* the lists of a list, one after the other
Flat(lists) ==
    IF Len(lists) = 0 THEN <<>>
    ELSE IF Len(lists) = 1 THEN lists[1]
    ELSE Flat(SubSeq(lists, 1, Len(lists) \div 2))
         \o Flat(SubSeq(lists, Len(lists) \div 2 + 1, Len(lists)))

RepEnds(node, i, n) ==
    IF n < node.least THEN <<>>
    ELSE [j \in 1..(n - node.least + 1) |->
            IF node.greedy THEN i + n - (j - 1) ELSE i + node.least + (j - 1)]

RECURSIVE Ends(_, _, _)
RECURSIVE EndsSeq(_, _, _, _)
Ends(node, s, i) ==
    CASE node.t = "lit" ->
            IF StartsWithAt(s, i, node.s) THEN <<i + Len(node.s)>> ELSE <<>>
      [] node.t = "rep" -> RepEnds(node, i, RunLen(s, i, node.c, node.most))
      [] node.t = "wb" -> IF IsWordAt(s, i - 1) # IsWordAt(s, i) THEN <<i>> ELSE <<>>
      [] node.t = "bos" -> IF i = 1 THEN <<i>> ELSE <<>>
      [] node.t = "eos" ->
            IF i = Len(s) + 1 \/ (i = Len(s) /\ Ch(s, i) = "\n") THEN <<i>> ELSE <<>>
      [] node.t = "behind" ->
            IF i > 1 /\ Has(node.c, Ch(s, i - 1)) THEN <<i>> ELSE <<>>
      [] node.t = "seq" -> EndsSeq(node.xs, 1, s, <<i>>)
      [] node.t = "alt" -> Flat([a \in 1..Len(node.xs) |-> Ends(node.xs[a], s, i)])

\* the ends of xs[n..] for matches that start at one of the positions starts
EndsSeq(xs, n, s, starts) ==
    IF n > Len(xs) \/ starts = <<>> THEN starts
    ELSE EndsSeq(xs, n + 1, s, Flat([a \in 1..Len(starts) |-> Ends(xs[n], s, starts[a])]))

\* the length of the match at i, -1 when there is none
MatchLen(ends, i) == IF ends = <<>> THEN -1 ELSE ends[1] - i

\* for every position of s the length of the match that starts there
MatchLens(node, s) == [i \in 1..(Len(s) + 1) |-> MatchLen(Ends(node, s, i), i)]

\* pattern.match(s)
ReMatch(node, s) == Ends(node, s, 1) # <<>>

\* pattern.search(s)
ReSearch(node, s) == \E i \in 1..(Len(s) + 1) : Ends(node, s, i) # <<>>

RECURSIVE SubFrom(_, _, _, _, _)
\* s[i..] with the non-overlapping matches replaced from left to right by
\* repl followed by the last keep characters of the match
SubFrom(s, lens, i, repl, keep) ==
    IF \A n \in i..Len(s) : lens[n] <= 0 THEN SubSeq(s, i, Len(s))
    ELSE LET at == CHOOSE n \in i..Len(s) : lens[n] > 0 /\ \A b \in i..(n - 1) : lens[b] <= 0
             stop == at + lens[at]
         IN  SubSeq(s, i, at - 1) \o repl \o SubSeq(s, stop - keep, stop - 1)
             \o SubFrom(s, lens, stop, repl, keep)

\* A substitution of the cleanup: pattern.sub(repl, text) or
\* re.sub(pattern, repl, text), with fold for a pattern with the flag (?i),
\* keep = 1 for the replacement r"\1" of a pattern that ends with its
\* one-character group, and strip for a .strip() of the result.
Step(pattern, repl, fold, keep, strip) ==
    [pattern |-> pattern, repl |-> repl, fold |-> fold, keep |-> keep, strip |-> strip]

Substituted(step, text, out) == IF step.strip THEN Strip(out) ELSE out

ApplyStep(step, text) ==
    Substituted(step, text,
        SubFrom(text, MatchLens(step.pattern, IF step.fold THEN StrLower(text) ELSE text),
                1, step.repl, step.keep))

RECURSIVE ApplySteps(_, _, _)
\* the substitutions steps[n..] applied to text one after the other, each
\* on the finished result of the one before
ApplySteps(steps, n, text) ==
    IF n > Len(steps) THEN text
    ELSE CHOOSE out \in {ApplySteps(steps, n + 1, next) :
                            next \in {ApplyStep(steps[n], text)}} : TRUE

RECURSIVE SplitFrom(_, _, _)
\* re.split(pattern, s) from position i on
SplitFrom(s, lens, i) ==
    IF \A n \in i..Len(s) : lens[n] <= 0 THEN <<SubSeq(s, i, Len(s))>>
    ELSE LET at == CHOOSE n \in i..Len(s) : lens[n] > 0 /\ \A b \in i..(n - 1) : lens[b] <= 0
         IN  <<SubSeq(s, i, at - 1)>> \o SplitFrom(s, lens, at + lens[at])

ReSplit(node, s) == SplitFrom(s, MatchLens(node, s), 1)


(***************************************************************************)
(* Final Answer: kb_project/wikidata_rag_agent.py                          *)
(* The patterns with the flag (?i) are written in lower case and matched   *)
(* against the text in lower case.                                         *)
(***************************************************************************)
Quote == In({"'", "\""})
ToolPrefix == Alt(<<Lit("fetch_"), Lit("search_"), Lit("wikidata_sparql")>>)
SourceName == Alt(<<Lit("wikidata"), Lit("wikipedia")>>)

PROCESS_TEXT_PATTERN ==
    Alt(<<Lit("based on the search results"),
          Seqn(<<Lit("next step"), S0, Lit(":")>>),
          Seqn(<<Lit("i "), Opt(Lit("have ")), Lit("identified "), Lazy,
                 Lit("(q"), Rep(Digit, 1, -1, TRUE), Lit(")")>>),
          Seqn(<<Lit("\"name\""), S0, Lit(":"), S0, Lit("\""), ToolPrefix>>),
          Seqn(<<Lit("\"parameters\""), S0, Lit(":")>>)>>)

PYTHON_TAG_TOOL_CALL_PATTERN ==
    Seqn(<<Lit("<|python_tag|>"), S0, Lit("{"), Lazy, Lit("\"name\""), S0, Lit(":"), S0,
           Lit("\""), Rep(NotIn({"\""}), 1, -1, TRUE), Lit("\""), Lazy,
           Lit("\"parameters\""), S0, Lit(":"), S0, Lit("{")>>)

TOOL_PAYLOAD_ONLY_PATTERN ==
    Seqn(<<Bos, S0, Opt(Seqn(<<Lit("<|python_tag|>"), S0>>)), Lit("{"), S0,
           One(Quote), Lit("name"), One(Quote), S0, Lit(":"), S0,
           One(Quote), ToolPrefix, Rep(NotIn({"'", "\""}), 0, -1, TRUE), One(Quote), S0,
           Lit(","), S0, One(Quote), Lit("parameters"), One(Quote), S0, Lit(":"), S0,
           Lit("{"), Lazy, Lit("}"), S0, Lit("}"), S0, Eos>>)

QID_PATTERN == Seqn(<<Maybe(In({"["})), Lit("Q"), Rep(Digit, 1, -1, TRUE), Maybe(In({"]"}))>>)

PAREN_NOTE_PATTERN == Seqn(<<Lit("("), S0, Lit("note:"), Lazy, Lit(")")>>)

META_LINE_PATTERN ==
    Seqn(<<WordEdge,
           Alt(<<Seqn(<<Lit("based on the "), Alt(<<Lit("search"), Lit("retrieved")>>)>>),
                 Seqn(<<Lit("according to "), SourceName>>),
                 Seqn(<<Lit("i "), Alt(<<Lit("will"), Lit("can")>>), Lit(" "),
                        Alt(<<Lit("verify"), Lit("check")>>)>>),
                 Lit("direct retrieval"),
                 Lit("common understanding")>>),
           WordEdge>>)

SOURCE_PROCESS_CLAUSE_PATTERN ==
    Seqn(<<WordEdge, Alt(<<Lit("based on"), Lit("according to")>>), S1,
           Opt(Seqn(<<Lit("the"), S1>>)),
           Alt(<<Seqn(<<Lit("search result"), Maybe(In({"s"}))>>),
                 Lit("retrieved evidence"), Lit("available evidence"),
                 Lit("available information"), Lit("wikidata"), Lit("wikipedia")>>),
           WordEdge, Maybe(In({":", ","}))>>)

SOURCE_REFERENCE_PATTERN ==
    Seqn(<<WordEdge, Alt(<<Lit("in"), Lit("from")>>), S1, SourceName, WordEdge>>)

TOOL_PROCESS_NOUN_PATTERN ==
    Seqn(<<WordEdge,
           Alt(<<Seqn(<<Lit("search result"), Maybe(In({"s"}))>>),
                 Lit("retrieved evidence"), Lit("tool output"), Lit("tool outputs")>>),
           WordEdge>>)

SOURCE_ID_CLAUSE_PATTERN ==
    Seqn(<<Maybe(In({","})), S0, Opt(Seqn(<<Lit("whose"), S1>>)),
           Alt(<<Seqn(<<Lit("wikidata"), S1, Lit("id")>>),
                 Seqn(<<Lit("wikipedia"), S1, Lit("id")>>), Lit("qid")>>),
           S1, Alt(<<Lit("is"), Lit("was")>>), S0,
           Maybe(In({"["})), Lit("q"), Rep(Digit, 1, -1, TRUE), Maybe(In({"]"})),
           Maybe(In({","}))>>)

SOURCE_WORD_PATTERN == Seqn(<<WordEdge, SourceName, WordEdge>>)

\* the patterns that finalize_agent_answer writes in place
PythonTag == Seqn(<<Lit("<|python_tag|>"), S0>>)
SentenceGap == Seqn(<<Behind(In({".", "!", "?"})), S1>>)
TrailingEvidence ==
    Seqn(<<S1, Lit("based on "), Alt(<<Lit("available evidence"), Lit("available information")>>),
           Rep(LineCh, 0, -1, TRUE), Eos>>)
SpaceComma == Seqn(<<S1, Lit(",")>>)
CommaDot == Seqn(<<Lit(","), S0, Lit(".")>>)
CommaMark == Seqn(<<Lit(","), S0, One(In({"!", "?"}))>>)
SpaceDot == Seqn(<<S1, Lit(".")>>)
EmptyParens == Seqn(<<Lit("("), S0, Lit(")")>>)
Spaces2 == Rep(Space, 2, -1, TRUE)

\* is_process_message(text)
is_process_message(text) ==
    \/ ReSearch(PROCESS_TEXT_PATTERN, StrLower(Strip(text)))
    \/ ReSearch(PYTHON_TAG_TOOL_CALL_PATTERN, StrLower(Strip(text)))

\* the sentences that hold no meta phrase, joined; the text itself when none is left
DropMetaSentences(text) ==
    LET filtered == SelectSeq(ReSplit(SentenceGap, text),
                        LAMBDA sentence : sentence # ""
                            /\ ~ReSearch(META_LINE_PATTERN, StrLower(sentence)))
    IN  IF filtered # <<>> THEN Strip(JoinWith(filtered, " ")) ELSE text

\* lines 107-109: the tag, the notes in parentheses, the whitespace
TextSteps ==
    <<Step(PythonTag, "", TRUE, 0, FALSE),
      Step(PAREN_NOTE_PATTERN, "", TRUE, 0, FALSE),
      Step(S1, " ", FALSE, 0, TRUE)>>

\* lines 117-130: the source and process wording, then the punctuation it leaves
SourceSteps ==
    <<Step(TrailingEvidence, "", TRUE, 0, TRUE),
      Step(SOURCE_PROCESS_CLAUSE_PATTERN, "", TRUE, 0, FALSE),
      Step(SOURCE_REFERENCE_PATTERN, "", TRUE, 0, FALSE),
      Step(TOOL_PROCESS_NOUN_PATTERN, "", TRUE, 0, FALSE),
      Step(SOURCE_ID_CLAUSE_PATTERN, "", TRUE, 0, FALSE),
      Step(SOURCE_WORD_PATTERN, "", TRUE, 0, FALSE),
      Step(SpaceComma, ",", FALSE, 0, FALSE),
      Step(CommaDot, ".", FALSE, 0, FALSE),
      Step(CommaMark, "", FALSE, 1, FALSE),
      Step(SpaceDot, ".", FALSE, 0, FALSE),
      Step(EmptyParens, "", FALSE, 0, FALSE),
      Step(Spaces2, " ", FALSE, 0, TRUE)>>

\* lines 132-136: the item ids go unless the question asks for them
QidSteps(question) ==
    IF Contains(StrLower(question), "qid") \/ Contains(StrLower(question), "wikidata id")
    THEN <<>>
    ELSE <<Step(QID_PATTERN, "", FALSE, 0, FALSE), Step(Spaces2, " ", FALSE, 0, TRUE)>>

\* _TOOL_PAYLOAD_ONLY_PATTERN.match(text)
IsPayloadOnly(text) == ReMatch(TOOL_PAYLOAD_ONLY_PATTERN, StrLower(text))

\* finalize_agent_answer(answer, question)
finalize_agent_answer(answer, question) ==
    IF IsPayloadOnly(Strip(answer)) THEN ""
    ELSE LET final_text ==
                ApplySteps(SourceSteps \o QidSteps(question), 1,
                    DropMetaSentences(ApplySteps(TextSteps, 1, Strip(answer))))
         IN  IF IsPayloadOnly(final_text) THEN "" ELSE final_text

(***************************************************************************)
(* Agent Control Loop: answer_question (wikidata_rag_agent.py),            *)
(* run_agent_with_capture (benchmark/vectra.py) and                        *)
(* answer_question_prompt_only (prompt_only_llm.py).  The graph is the     *)
(* ReAct loop that build_agent() makes: a step of the model, which calls a *)
(* tool or says its final text, then a step of the tools.  The language    *)
(* model is a black box: what it says is drawn from ModelTexts and the     *)
(* tools it calls from one of the AgentScripts.                            *)
(***************************************************************************)
RAG_RECURSION_LIMIT == 40

\* a model that has not answered after this many tool calls goes on calling
\* tools until the step limit
MaxAnswerAfter == 2

CannotVerify == "I cannot verify that."

\* what the graph library of the build puts in place of the model's output
\* when the steps run out, if it does not raise
NeedMoreSteps == "Sorry, need more steps to process this request."

SearchPayload ==
    "{\"name\": \"search_entity_candidates\", \"parameters\": {\"entity_name\": \"France\"}}"

CollaborationText ==
    "I cannot verify a real-world collaboration between A and B in Wikidata, "
    \o "based on the search results."

\* the final texts of the model
ModelTexts ==
    {"Paris is the capital of France.",
     "  Paris (Q90) is the capital of France.\n",
     SearchPayload,
     "<|python_tag|>" \o SearchPayload,
     "{'name': 'wikidata_sparql', 'parameters': {}}",
     "Q90",
     CollaborationText,
     "Based on the search results, I will check Q90.",
     ""}

Questions == {"What is the capital of France?", "What is the QID of Paris?"}

\* the free-text chunks of a stream: an answer with an identifier clause,
\* planning texts, a bare identifier, a tool-call payload
IdClauseText == "Paris, whose Wikidata ID is Q90, is the capital of France."
SelectTexts ==
    {IdClauseText,
     "Based on the search results, I will check Q90.",
     "Next step: fetch Paris.",
     "Q90",
     SearchPayload}

\* the output of wikidata_sparql for a query without rows
NoResultsText == "Query returned no results."

\* the entry points with tools, and whether they print
AgentEntries ==
    {[entry |-> "answer_question", verbose |-> TRUE],
     [entry |-> "answer_question", verbose |-> FALSE],
     [entry |-> "run_agent_with_capture", verbose |-> TRUE]}

\* the tool calls of a run, in order; the last one is repeated
AgentScripts ==
    {<<[tool |-> "search", entity_name |-> "France", entity_type |-> "country"],
       [tool |-> "fetch", qid |-> "Q1"]>>,
     <<[tool |-> "fetch", qid |-> "Q1"]>>,
     <<[tool |-> "sparql", sparql |-> "SELECT ?item WHERE { ?item ?p ?o } LIMIT 1"],
       [tool |-> "wiki", qid |-> "Q937", entity_name |-> "Albert Einstein"]>>}

\* the n-th tool call of a script
ToolCallOf(script, n) == script[Min(n, Len(script))]

\* the answers of the remote services during a question run
AgentSearchAnswer == Answered(SubSeq(SearchRowOrder, 2, 3), SearchVars)
AgentFetchAnswer ==
    Answered(<<[itemLabel |-> Value("France"),
                itemDescription |-> Value("country in Western Europe"),
                p36ValueLabel |-> Value("Paris")]>>, FetchVars)
AgentSparqlAnswer == Answered(<<[item |-> Value("Q1")]>>, <<"item">>)
AgentTitleAnswer == Answered(<<>>, <<"article">>)

\* content_to_text(content) for a content that is a string
content_to_text(content) == Strip(content)

\* The texts of the model and of the user in a run, and for each of them what
\* finalize_agent_answer and is_process_message give: the two functions are
\* applied to the same few texts in every run, and Cleaned and IsProcess
\* look the result up instead of matching the patterns again.
KnownTexts ==
    {content_to_text(t) : t \in ModelTexts \cup SelectTexts}
        \cup {NeedMoreSteps, NoResultsText} \cup Questions

Finalized == [p \in KnownTexts \X Questions |-> finalize_agent_answer(p[1], p[2])]

KnownCleaned == KnownTexts \cup {Finalized[p] : p \in DOMAIN Finalized}

ProcessTexts == {t \in KnownCleaned : is_process_message(t)}

\* finalize_agent_answer(answer, question)
Cleaned(answer, question) ==
    IF <<answer, question>> \in DOMAIN Finalized THEN Finalized[<<answer, question>>]
    ELSE finalize_agent_answer(answer, question)

\* is_process_message(text)
IsProcess(text) ==
    IF text \in KnownCleaned THEN text \in ProcessTexts ELSE is_process_message(text)

\* messages of the graph
AIMessage(content, tool_calls) == [type |-> "ai", content |-> content, tool_calls |-> tool_calls]
ToolMessage(content) == [type |-> "tool", content |-> content, tool_calls |-> 0]
HumanMessage(content) == [type |-> "human", content |-> content, tool_calls |-> 0]

\* cleaned_answer, or the refusal when it is empty
OrCannotVerify(cleaned) == IF cleaned = "" THEN CannotVerify ELSE cleaned

RECURSIVE StreamLoop(_, _, _)
\* The loop of answer_question over the streamed messages[i..] when verbose:
\* st is [final_answer, fallback_answer].
StreamLoop(messages, i, st) ==
    IF i > Len(messages) THEN st
    ELSE
        LET msg == messages[i]
            parsed == content_to_text(msg.content)
        IN  IF msg.tool_calls > 0 \/ msg.type = "tool" \/ msg.content = ""
            THEN StreamLoop(messages, i + 1, st)
            ELSE StreamLoop(messages, i + 1,
                    [fallback_answer |-> IF parsed # "" /\ st.fallback_answer = ""
                                         THEN parsed ELSE st.fallback_answer,
                     final_answer |-> IF parsed # "" /\ ~IsProcess(parsed)
                                      THEN parsed ELSE st.final_answer])

\* cleaned, when it can be the answer; otherwise what the rest of the loop gives
Accepted(cleaned, otherwise) ==
    IF cleaned # "" /\ ~IsProcess(cleaned) THEN cleaned ELSE otherwise

RECURSIVE InvokeLoop(_, _, _, _)
\* The loop of answer_question over reversed(messages), from messages[i]
\* down, when not verbose, and the lines after it.
InvokeLoop(messages, i, question, fallback_answer) ==
    IF i = 0
    THEN IF fallback_answer # ""
         THEN Accepted(Cleaned(fallback_answer, question), CannotVerify)
         ELSE CannotVerify
    ELSE IF messages[i].content = ""
    THEN InvokeLoop(messages, i - 1, question, fallback_answer)
    ELSE Accepted(Cleaned(content_to_text(messages[i].content), question),
                  InvokeLoop(messages, i - 1, question,
                             IF fallback_answer = "" THEN content_to_text(messages[i].content)
                             ELSE fallback_answer))

\* answer_question(question, agent, verbose), the graph having produced
\* messages: streamed (without the question) when verbose, otherwise the
\* messages of the final state, which begin with the question
answer_question(question, messages, verbose) ==
    IF verbose
    THEN LET st == StreamLoop(messages, 1, [final_answer |-> "", fallback_answer |-> ""])
         IN  OrCannotVerify(Cleaned(
                IF st.final_answer # "" THEN st.final_answer ELSE st.fallback_answer, question))
    ELSE InvokeLoop(<<HumanMessage(question)>> \o messages, Len(messages) + 1, question, "")

RECURSIVE CaptureLoop(_, _, _, _)
\* The loop of run_agent_with_capture over the streamed messages[i..]: st is
\* [final_answer, fallback_final_answer].
CaptureLoop(messages, i, question, st) ==
    IF i > Len(messages) THEN st
    ELSE
        LET msg == messages[i]
            content == content_to_text(msg.content)
        IN  IF msg.tool_calls > 0 \/ msg.type = "tool" \/ msg.content = ""
            THEN CaptureLoop(messages, i + 1, question, st)
            ELSE CaptureLoop(messages, i + 1, question,
                    [fallback_final_answer |-> IF st.fallback_final_answer = ""
                                               THEN content ELSE st.fallback_final_answer,
                     final_answer |-> Accepted(Cleaned(content, question),
                                               st.final_answer)])

\* run_agent_with_capture(question, agent).final_answer
run_agent_with_capture(question, messages) ==
    LET st == CaptureLoop(messages, 1, question,
                          [final_answer |-> "", fallback_final_answer |-> ""])
    IN  IF st.final_answer # "" THEN st.final_answer
        ELSE OrCannotVerify(Cleaned(st.fallback_final_answer, question))

\* answer_question_prompt_only(question, llm): text is the last text of the
\* stream, or of the raw call made after the stream raised
answer_question_prompt_only(question, text) == content_to_text(content_to_text(text))


\* the question run after a step: run is the agent's record after it
AgentStep(run) ==
    /\ agent' = run
    /\ UNCHANGED <<last, returned, sparql_invoked, revoked, runs>>

\* answer_question / run_agent_with_capture up to the first step of the
\* graph: reset_tool_protocol_state() and build_agent(), in either order
AgentBegin(e, question, script) ==
    /\ agent.pc \in {"idle", "ended"}
    /\ reset_tool_protocol_state
    /\ AgentStep([IdleAgent EXCEPT !.pc = "running", !.entry = e.entry,
                      !.verbose = e.verbose, !.question = question, !.script = script,
                      !.turn = "model", !.resets = 1,
                      !.left = allowed_qids # {} \/ sparql_attempted])

\* a step of the model that asks for the next tool call of its script
ModelCallsTool ==
    /\ agent.pc = "running" /\ agent.turn = "model"
    /\ agent.steps < RAG_RECURSION_LIMIT
    /\ UNCHANGED protocol
    /\ AgentStep([agent EXCEPT !.turn = "tools", !.steps = @ + 1,
                      !.messages = Append(@, AIMessage("", 1))])

\* the agent's record after its tool call returned ret
AfterTool(ret, seen, escalated) ==
    [agent EXCEPT !.turn = "model", !.steps = @ + 1, !.tools = @ + 1,
        !.first_tool_resets = IF agent.tools = 0 THEN agent.resets ELSE @,
        !.stale = @ \/ ~(allowed_qids \subseteq agent.seen)
                    \/ ~(DOMAIN qid_to_entity \subseteq agent.seen)
                    \/ (sparql_attempted /\ ~agent.escalated),
        !.seen = seen, !.escalated = escalated,
        !.messages = Append(@, ToolMessage(ret))]

\* a step of the tools: the tool call is invoked and its output is a message
ToolsRun ==
    /\ agent.pc = "running" /\ agent.turn = "tools"
    /\ agent.steps < RAG_RECURSION_LIMIT
    /\ \E call \in {ToolCallOf(agent.script, agent.tools + 1)} :
        CASE call.tool = "search" ->
                \E r \in {search_entity_candidates(call.entity_name, call.entity_type,
                            AgentSearchAnswer, allowed_qids, qid_to_entity)} :
                    /\ allowed_qids' = r.allowed
                    /\ qid_to_entity' = r.entity
                    /\ UNCHANGED sparql_attempted
                    /\ AgentStep(AfterTool(r.ret,
                            agent.seen \cup {r.candidates[n].qid : n \in 1..Len(r.candidates)},
                            agent.escalated))
          [] call.tool = "fetch" ->
                \E r \in {fetch_entity_properties(call.qid, <<Str("P36")>>, TRUE,
                            allowed_qids, AgentFetchAnswer)} :
                    /\ UNCHANGED protocol
                    /\ AgentStep(AfterTool(r.ret, agent.seen, agent.escalated))
          [] call.tool = "sparql" ->
                \E r \in {wikidata_sparql(call.sparql, DEFAULT_SPARQL_LIMIT,
                            AgentSparqlAnswer)} :
                    /\ sparql_attempted' = IF r.marked THEN TRUE ELSE sparql_attempted
                    /\ UNCHANGED <<allowed_qids, qid_to_entity>>
                    /\ AgentStep(AfterTool(r.ret, agent.seen, agent.escalated \/ r.marked))
          [] call.tool = "wiki" ->
                \E r \in {fetch_wikipedia_article_tool(call.qid, call.entity_name,
                            sparql_attempted, AgentTitleAnswer, NoDocument)} :
                    /\ UNCHANGED protocol
                    /\ AgentStep(AfterTool(r.ret, agent.seen, agent.escalated))

\* the answer the entry point of the run returns for the messages of the graph
AnswerOf(run, messages) ==
    IF run.entry = "answer_question"
    THEN answer_question(run.question, messages, run.verbose)
    ELSE run_agent_with_capture(run.question, messages)

\* the run returns: the state of the graph is gone, the answer stays
Returned(said, answer) ==
    [agent EXCEPT !.pc = "ended", !.turn = "none", !.steps = 0, !.tools = 0,
        !.messages = <<>>, !.said = said, !.answer = answer]

\* a step of the model that calls no tool: its text is the last message and
\* the graph ends
ModelAnswers(text) ==
    /\ agent.pc = "running" /\ agent.turn = "model"
    /\ agent.steps < RAG_RECURSION_LIMIT
    /\ agent.tools <= MaxAnswerAfter
    /\ UNCHANGED protocol
    /\ AgentStep([agent EXCEPT !.turn = "end", !.said = text,
                      !.messages = Append(@, AIMessage(text, 0))])

\* The graph has taken recursion_limit steps and the model still has a tool
\* to call.  What happens is the graph library's: it raises its recursion
\* error out of stream()/invoke(), which no caller catches, or it ends the
\* graph with its own last message.
LimitReached(raises) ==
    /\ agent.pc = "running" /\ agent.turn \in {"model", "tools"}
    /\ agent.steps = RAG_RECURSION_LIMIT
    /\ UNCHANGED protocol
    /\ IF raises
       THEN AgentStep([Returned("", "") EXCEPT !.limit = TRUE, !.raised = TRUE])
       ELSE AgentStep([agent EXCEPT !.turn = "end", !.said = NeedMoreSteps, !.limit = TRUE,
                           !.messages = Append(@, AIMessage(NeedMoreSteps, 0))])

\* the graph has ended: the entry point picks the answer in the messages,
\* cleans it and returns
AnswerReturned ==
    /\ agent.pc = "running" /\ agent.turn = "end"
    /\ UNCHANGED protocol
    /\ \E answer \in {AnswerOf(agent, agent.messages)} :
        AgentStep(Returned(agent.said, answer))

\* answer_question_prompt_only(question, llm): the agent has no tools and
\* the Protocol State is not touched
PromptOnly(question, text) ==
    /\ agent.pc \in {"idle", "ended"}
    /\ UNCHANGED protocol
    /\ AgentStep([IdleAgent EXCEPT !.pc = "ended", !.entry = "answer_question_prompt_only",
                      !.question = question, !.said = text,
                      !.left = allowed_qids # {} \/ sparql_attempted,
                      !.answer = answer_question_prompt_only(question, text)])

NextAgent ==
    \/ \E e \in AgentEntries, question \in Questions, script \in AgentScripts :
            AgentBegin(e, question, script)
    \/ ModelCallsTool
    \/ ToolsRun
    \/ \E text \in ModelTexts : ModelAnswers(text)
    \/ \E raises \in BOOLEAN : LimitReached(raises)
    \/ AnswerReturned
    \/ \E question \in Questions, text \in ModelTexts : PromptOnly(question, text)

SpecAgent == Init /\ [][NextAgent]_vars


\* the runs of the entry points that have tools
ToolRun == agent.entry \in {"answer_question", "run_agent_with_capture"}

\* C13 as stated: a run whose graph reached the step limit without a final
\* answer still returns, and what it returns is the refusal string; the
\* limit error does not leave answer_question or run_agent_with_capture.
C13_StepLimitRefuses ==
    (agent.pc = "ended" /\ agent.limit) => (~agent.raised /\ agent.answer = CannotVerify)

\* C14 as stated: the answer of a run that returned is never empty, and when
\* the cleanup of the model's final text is empty (as for a text that is
\* only a tool-call payload) the answer is exactly the refusal string.
C14_EmptyBecomesRefusal ==
    (ToolRun /\ agent.pc = "ended" /\ ~agent.raised) =>
        /\ agent.answer # ""
        /\ Cleaned(content_to_text(agent.said), agent.question) = ""
                => agent.answer = CannotVerify

\* C18 as stated: what answer_question_prompt_only returns is the model's
\* last text after finalize_agent_answer, so it names neither Wikidata nor
\* Wikipedia and holds neither "search results" nor ",.".
C18_PromptOnlyCleaned ==
    (agent.entry = "answer_question_prompt_only" /\ agent.pc = "ended") =>
        /\ agent.answer = Cleaned(content_to_text(agent.said), agent.question)
        /\ ~Contains(StrLower(agent.answer), "wikidata")
        /\ ~Contains(StrLower(agent.answer), "wikipedia")
        /\ ~Contains(StrLower(agent.answer), "search results")
        /\ ~Contains(agent.answer, ",.")

\* C20: a question run of answer_question (verbose or not) or of
\* run_agent_with_capture has called reset_tool_protocol_state exactly once,
\* the call came before the first tool invocation of the run, and no tool
\* invocation of the run found ids, names or the escalation flag that the
\* run's own tool calls had not put there.
C20_ResetBeforeFirstTool ==
    ToolRun =>
        /\ agent.resets = 1
        /\ agent.tools > 0 => agent.first_tool_resets = 1
        /\ agent.first_tool_resets \in {-1, 1}
        /\ ~agent.stale

\* a run that began with state left by the run before it, and whose first
\* tool call, a fetch of an id that the earlier run had searched, was rejected
C20_SecondRunStartsClean ==
    /\ ToolRun /\ agent.pc = "running" /\ agent.left
    /\ agent.tools = 1 /\ agent.first_tool_resets = 1
    /\ agent.script[1].tool = "fetch"
    /\ Contains(agent.messages[Len(agent.messages)].content, "Tool-order protocol violation")

\* ---------------------------------------------------------------------------
\* Answer selection: the entry points over the messages of any graph
\* ---------------------------------------------------------------------------

\* the messages of a graph are at most this many
MaxMessages == 3

\* keys of pending_tool_calls and values of tool_call_id: a string or None
StrKey(s) == <<"str", s>>
NoneKey == <<"None">>
\* the "id" of a tool call of the model: a string, None, or no "id" key
NoIdKey == <<>>

\* an AI message with tool calls, each [name, args, id], and a tool message
AIToolCalls(calls) ==
    [type |-> "ai", content |-> "", tool_calls |-> Len(calls), calls |-> calls]
ToolReply(content, tool_call_id) ==
    [type |-> "tool", content |-> content, tool_calls |-> 0, tool_call_id |-> tool_call_id]

SparqlCall == [name |-> "wikidata_sparql", args |-> "sparql", id |-> StrKey("a")]

\* what a graph yields, one message or more: a free-text chunk, a tool call,
\* a tool output
SelectMessages ==
    {AIMessage(t, 0) : t \in SelectTexts}
        \cup {AIToolCalls(<<SparqlCall>>), ToolReply(NoResultsText, StrKey("a"))}

MessageLists(most) == UNION {[1..n -> SelectMessages] : n \in 1..most}

\* pending_tool_calls[key] = call: a key that is assigned again keeps its
\* place in the dict and loses its earlier value
PutPending(pending, key, call) ==
    IF \E n \in 1..Len(pending) : pending[n].key = key
    THEN [n \in 1..Len(pending) |->
            IF pending[n].key = key THEN [key |-> key, call |-> call] ELSE pending[n]]
    ELSE Append(pending, [key |-> key, call |-> call])

\* tc.get("id", str(len(pending_tool_calls)))
PendingKey(tc, pending) ==
    IF tc.id = NoIdKey THEN StrKey(ToString(Len(pending))) ELSE tc.id

RECURSIVE PutCalls(_, _, _)
\* the loop over msg.tool_calls from the n-th call on
PutCalls(calls, n, pending) ==
    IF n > Len(calls) THEN pending
    ELSE PutCalls(calls, n + 1,
            PutPending(pending, PendingKey(calls[n], pending),
                       [name |-> calls[n].name, args |-> calls[n].args, output |-> ""]))

\* pending_tool_calls.pop(key)
PopPending(pending, key) == SelectSeq(pending, LAMBDA entry : entry.key # key)

\* the pending call that a tool message is matched with, <<>> when none:
\* the one of its tool_call_id, else the first pending one
MatchedKey(msg, pending) ==
    IF msg.tool_call_id # NoneKey /\ \E n \in 1..Len(pending) : pending[n].key = msg.tool_call_id
    THEN <<msg.tool_call_id>>
    ELSE IF pending # <<>> THEN <<pending[1].key>> ELSE <<>>

RECURSIVE CapturedCalls(_, _, _, _)
\* run.tool_calls after the loop of run_agent_with_capture over messages[i..]
CapturedCalls(messages, i, pending, tool_calls) ==
    IF i > Len(messages) THEN tool_calls
    ELSE
        LET msg == messages[i]
        IN  IF msg.tool_calls > 0
            THEN CapturedCalls(messages, i + 1, PutCalls(msg.calls, 1, pending), tool_calls)
            ELSE IF msg.type = "tool"
            THEN LET matched == MatchedKey(msg, pending)
                 IN  IF matched = <<>>
                     THEN CapturedCalls(messages, i + 1, pending, tool_calls)
                     ELSE LET at == CHOOSE n \in 1..Len(pending) : pending[n].key = matched[1]
                          IN  CapturedCalls(messages, i + 1, PopPending(pending, matched[1]),
                                  Append(tool_calls,
                                         [pending[at].call EXCEPT
                                            !.output = content_to_text(msg.content)]))
            ELSE CapturedCalls(messages, i + 1, pending, tool_calls)

\* answer_question(question, agent, verbose) and run_agent_with_capture(
\* question, agent) for an agent whose graph yields messages
Drive(e, question, messages) ==
    /\ agent.pc = "idle"
    /\ reset_tool_protocol_state
    /\ \E answer \in {AnswerOf([entry |-> e.entry, verbose |-> e.verbose,
                                question |-> question], messages)} :
        AgentStep([IdleAgent EXCEPT !.pc = "ended", !.entry = e.entry,
                       !.verbose = e.verbose, !.question = question, !.resets = 1,
                       !.messages = messages, !.answer = answer,
                       !.tool_calls = IF e.entry = "run_agent_with_capture"
                                      THEN CapturedCalls(messages, 1, <<>>, <<>>)
                                      ELSE <<>>])

NextSelect ==
    \E e \in AgentEntries, question \in Questions, messages \in MessageLists(MaxMessages) :
        Drive(e, question, messages)

SpecSelect == Init /\ [][NextSelect]_vars

\* a message that the streaming loops take for free text of the model
IsChunk(msg) ==
    msg.type = "ai" /\ msg.tool_calls = 0 /\ content_to_text(msg.content) # ""

\* the free-text chunks of the messages, in order
Chunks(messages) ==
    LET free == SelectSeq(messages, IsChunk)
    IN  [n \in 1..Len(free) |-> content_to_text(free[n].content)]

\* the chunks that is_process_message does not classify as chatter
NonChatter(chunks) == SelectSeq(chunks, LAMBDA chunk : ~IsProcess(chunk))

LastOf(seq) == seq[Len(seq)]

\* a run of one of the two streaming entry points has returned
Streamed ==
    /\ agent.pc = "ended"
    /\ agent.entry = "run_agent_with_capture" \/ (agent.entry = "answer_question" /\ agent.verbose)

VerboseRun == agent.pc = "ended" /\ agent.entry = "answer_question" /\ agent.verbose
InvokeRun == agent.pc = "ended" /\ agent.entry = "answer_question" /\ ~agent.verbose
CaptureRun == agent.pc = "ended" /\ agent.entry = "run_agent_with_capture"

\* final_answer and the fallback of the streaming loop of the returned run
LoopState ==
    IF agent.entry = "run_agent_with_capture"
    THEN LET st == CaptureLoop(agent.messages, 1, agent.question,
                               [final_answer |-> "", fallback_final_answer |-> ""])
         IN  [final_answer |-> st.final_answer, fallback_answer |-> st.fallback_final_answer]
    ELSE StreamLoop(agent.messages, 1, [final_answer |-> "", fallback_answer |-> ""])

\* C21 as stated: in answer_question (verbose) and run_agent_with_capture
\* only a chunk that is_process_message does not classify as chatter becomes
\* the candidate final answer: with no such chunk the candidate stays empty,
\* and with one the answer of the run is the last of them, sanitized (or the
\* refusal when that is empty), whatever chatter came before or after it.
C21_LastNonChatterWins ==
    Streamed =>
        LET good == NonChatter(Chunks(agent.messages))
        IN  /\ good = <<>> => LoopState.final_answer = ""
            /\ good # <<>> =>
                    agent.answer = OrCannotVerify(Cleaned(LastOf(good), agent.question))

\* C22 as stated: when every chunk of the run is chatter, the fallback
\* candidate at the end of a streaming run is the last chunk emitted.
C22_LastChatterIsFallback ==
    Streamed =>
        LET chunks == Chunks(agent.messages)
        IN  (chunks # <<>> /\ NonChatter(chunks) = <<>>) =>
                LoopState.fallback_answer = LastOf(chunks)

\* C28 as stated: the answer of a run is the refusal or comes from a free-text
\* chunk of the model (the chunk, sanitized); it is not the user's question
\* and not the output of a tool.
C28_AnswerFromModelText ==
    agent.pc = "ended" =>
        \/ agent.answer = CannotVerify
        \/ \E n \in 1..Len(agent.messages) :
              /\ IsChunk(agent.messages[n])
              /\ agent.answer =
                    Cleaned(content_to_text(agent.messages[n].content), agent.question)

\* C29 as stated: for the messages of the run the three entry points return
\* the same answer.
C29_DriversAgree ==
    agent.pc = "ended" =>
        /\ agent.answer = answer_question(agent.question, agent.messages, TRUE)
        /\ agent.answer = answer_question(agent.question, agent.messages, FALSE)
        /\ agent.answer = run_agent_with_capture(agent.question, agent.messages)

\* ---------------------------------------------------------------------------
\* Tool Call Records of run_agent_with_capture
\* ---------------------------------------------------------------------------

\* a tool call of the model is one of a few, told apart by the name; its
\* "id" is a string, None or missing, and the tool message that answers it
\* carries the call's id, None when the call has none
CallIds == {StrKey("a"), StrKey("b"), NoneKey, NoIdKey}
ToolCallNamed(name, id) == [name |-> name, args |-> "args of " \o name, id |-> id]
OutputOf(name) == "output of " \o name
ReplyTo(tc) == ToolReply(OutputOf(tc.name), IF tc.id = NoIdKey THEN NoneKey ELSE tc.id)

\* a model step has at most this many tool calls, a run at most this many
\* such steps
MaxCalls == 2
MaxRounds == 2

\* the tool calls of the steps of a run: a list of lists of ids in which no
\* string id occurs twice
IdLists == UNION {[1..n -> CallIds] : n \in 1..MaxCalls}
IdsOf(rounds) == Flat(rounds)
CallRounds ==
    {rounds \in UNION {[1..n -> IdLists] : n \in 1..MaxRounds} :
        \A a, b \in 1..Len(IdsOf(rounds)) :
            (a # b /\ IdsOf(rounds)[a] = IdsOf(rounds)[b])
                => IdsOf(rounds)[a] \in {NoneKey, NoIdKey}}

\* the messages of the r-th step with tool calls: the AI message and the
\* tool messages, in the order of the calls
RoundMessages(ids, r) ==
    LET calls == [n \in 1..Len(ids) |->
                    ToolCallNamed("tool" \o ToString(r) \o ToString(n), ids[n])]
    IN  <<AIToolCalls(calls)>> \o [n \in 1..Len(ids) |-> ReplyTo(calls[n])]

\* the stream of a run: its steps with tool calls and the final text
RunMessages(rounds) ==
    Flat([r \in 1..Len(rounds) |-> RoundMessages(rounds[r], r)])
        \o <<AIMessage("Paris is the capital of France.", 0)>>

\* run_agent_with_capture(question, agent) for an agent whose graph streams
\* the messages of rounds
Capture(question, rounds) ==
    /\ agent.pc = "idle"
    /\ reset_tool_protocol_state
    /\ \E messages \in {RunMessages(rounds)} :
        AgentStep([IdleAgent EXCEPT !.pc = "ended", !.entry = "run_agent_with_capture",
                       !.verbose = TRUE, !.question = question, !.resets = 1,
                       !.messages = messages,
                       !.tool_calls = CapturedCalls(messages, 1, <<>>, <<>>),
                       !.answer = run_agent_with_capture(question, messages)])

NextCapture == \E question \in Questions, rounds \in CallRounds : Capture(question, rounds)

SpecCapture == Init /\ [][NextCapture]_vars

\* the names of the tool calls of the messages, in the order of the calls
RECURSIVE CalledNames(_, _)
CalledNames(messages, i) ==
    IF i > Len(messages) THEN <<>>
    ELSE (IF messages[i].tool_calls > 0
          THEN [n \in 1..Len(messages[i].calls) |-> messages[i].calls[n].name]
          ELSE <<>>) \o CalledNames(messages, i + 1)

\* C30 as stated: in the Run of run_agent_with_capture every tool call that
\* was answered appears once, in the order of the answers, with its own
\* name, arguments and output.
C30_EveryCallRecordedOnce ==
    CaptureRun =>
        LET names == CalledNames(agent.messages, 1)
        IN  /\ Len(agent.tool_calls) = Len(names)
            /\ \A n \in 1..Len(names) :
                  agent.tool_calls[n] =
                      [name |-> names[n], args |-> "args of " \o names[n],
                       output |-> OutputOf(names[n])]

RECURSIVE InvokeCleanups(_, _, _)
\* The calls of finalize_agent_answer in answer_question when not verbose,
\* from messages[i] down: one for every message with content until one is
\* returned, and one for the fallback when none was.
InvokeCleanups(messages, i, question) ==
    IF i = 0
    THEN IF \E n \in 1..Len(messages) : content_to_text(messages[n].content) # ""
         THEN 1 ELSE 0
    ELSE IF messages[i].content = ""
    THEN InvokeCleanups(messages, i - 1, question)
    ELSE IF Accepted(Cleaned(content_to_text(messages[i].content), question), "") # ""
    THEN 1
    ELSE 1 + InvokeCleanups(messages, i - 1, question)

\* the calls of finalize_agent_answer in run_agent_with_capture: one for
\* every free-text message of the stream, and one for the fallback when no
\* chunk was accepted
CaptureCleanups(messages, question) ==
    Len(SelectSeq(messages, LAMBDA msg :
            msg.tool_calls = 0 /\ msg.type # "tool" /\ msg.content # ""))
    + (IF CaptureLoop(messages, 1, question,
                      [final_answer |-> "", fallback_final_answer |-> ""]).final_answer = ""
       THEN 1 ELSE 0)

\* the calls of finalize_agent_answer in the run that returned
Cleanups ==
    IF agent.entry = "run_agent_with_capture"
    THEN CaptureCleanups(agent.messages, agent.question)
    ELSE IF agent.verbose THEN 1
    ELSE InvokeCleanups(<<HumanMessage(agent.question)>> \o agent.messages,
                        Len(agent.messages) + 1, agent.question)

\* the messages without the free-text chunks
WithoutChunks(messages) == SelectSeq(messages, LAMBDA msg : ~IsChunk(msg))

\* C23 as stated: a run sanitizes once, the candidate it selected, and the
\* Tool Call Records of the Run are what they are without the sanitized
\* texts.
C23_SanitizedOnceAfterLoop ==
    agent.pc = "ended" =>
        /\ Cleanups = 1
        /\ agent.entry = "run_agent_with_capture" =>
                agent.tool_calls = CapturedCalls(WithoutChunks(agent.messages), 1, <<>>, <<>>)

\* a question asks for an identifier
QidRequested(question) ==
    Contains(StrLower(question), "qid") \/ Contains(StrLower(question), "wikidata id")

\* an identifier in the text: Q and a digit
HasQid(text) == \E i \in 1..(Len(text) - 1) : Ch(text, i) = "Q" /\ IsDigit(Ch(text, i + 1))

\* C24 as stated: the answer of a run whose only chunk holds an identifier
\* keeps an identifier when the question asks for one, and holds none when
\* the question does not.
C24_IdentifiersFollowQuestion ==
    (VerboseRun /\ Len(Chunks(agent.messages)) = 1) =>
        IF QidRequested(agent.question)
        THEN HasQid(Chunks(agent.messages)[1]) => HasQid(agent.answer)
        ELSE ~HasQid(agent.answer)


(***************************************************************************)
(* Ranking of Entity Search: answers of the search service made of the     *)
(* rows of up to MaxRankGroups entities in every order, searched with no   *)
(* type hint, with a hint of the keyword table and with one outside it.    *)
(***************************************************************************)

MaxRankGroups == 3

RankRow(id, description, facet) ==
    [item |-> Value(EntityUri(id)), itemLabel |-> Value("Springfield"),
     itemDescription |-> Value(description), instanceOfLabel |-> Value(facet)]

\* the rows of each entity, one row per type facet
RankGroups ==
    <<  <<RankRow("Q1", "city in Illinois", "big city")>>,
        <<RankRow("Q2", "2007 animated film", "film")>>,
        <<RankRow("Q3", "fictional place", "fictional location")>>,
        <<RankRow("Q4", "settlement in Oregon", "human settlement"),
          RankRow("Q4", "settlement in Oregon", "county seat"),
          RankRow("Q4", "settlement in Oregon", "locality"),
          RankRow("Q4", "settlement in Oregon", "City")>>,
        <<[item |-> Value(EntityUri("Q5")), itemLabel |-> Value("Springfield"),
           itemDescription |-> Value("Wikimedia disambiguation page")]>>,
        <<RankRow("Q6", "Town and city in Ohio", "town")>>  >>

\* the orders of up to MaxRankGroups different entities
RankOrders ==
    {o \in UNION {[1..k -> 1..Len(RankGroups)] : k \in 0..MaxRankGroups} :
        \A i, j \in DOMAIN o : i # j => o[i] # o[j]}

RankRowLists == {Flatten([i \in 1..Len(o) |-> RankGroups[o[i]]]) : o \in RankOrders}

\* the type hint given with each name
RankHints ==
    [Springfield |-> "", Shelbyville |-> "City", Ogdenville |-> "film", Brockway |-> "place"]

RankSearches ==
    {[call |-> [entity_name |-> name, entity_type |-> RankHints[name]],
      upstream |-> Answered(rows, SearchVars)] :
        name \in DOMAIN RankHints, rows \in RankRowLists}

\* the first search of a run
Rank(s) == last.op = "none" /\ Search(s.call, s.upstream)

NextRank == \E s \in RankSearches : Rank(s)

SpecRank == Init /\ [][NextRank]_vars

RECURSIVE FirstSeen(_, _)
\* the ids of the hits in the order of their first row
FirstSeen(hits, seen) ==
    IF hits = <<>> THEN seen
    ELSE FirstSeen(Tail(hits),
                   IF \E n \in 1..Len(seen) : seen[n] = hits[1].qid
                   THEN seen ELSE Append(seen, hits[1].qid))

\* the place of an id in a list of ids
PlaceOf(id, ids) == CHOOSE n \in 1..Len(ids) : ids[n] = id

\* the description of an entity: the one of its first row
DescriptionOf(id, hits) ==
    hits[CHOOSE n \in 1..Len(hits) :
            hits[n].qid = id /\ \A k \in 1..(n - 1) : hits[k].qid # id].description

\* every type facet the rows give for an entity
FacetsOf(id, hits) ==
    {hits[n].instance_of : n \in {k \in 1..Len(hits) : hits[k].qid = id}} \ {""}

\* +2 per keyword in the description, +3 per keyword in any facet
TypeScore(id, hits, keywords) ==
    2 * Cardinality({k \in 1..Len(keywords) :
                        Contains(StrLower(DescriptionOf(id, hits)), keywords[k])})
    + 3 * Cardinality({k \in 1..Len(keywords) :
                        \E facet \in FacetsOf(id, hits) : Contains(StrLower(facet), keywords[k])})

\* a is ranked before b: a higher score, or an equal score and an earlier
\* place in the upstream order; with no hint, the earlier place
RankedBefore(a, b, hits, hint) ==
    LET upstream == FirstSeen(hits, <<>>)
        keywords == KeywordsFor(hint)
    IN  IF hint = "" THEN PlaceOf(a, upstream) < PlaceOf(b, upstream)
        ELSE \/ TypeScore(a, hits, keywords) > TypeScore(b, hits, keywords)
             \/ /\ TypeScore(a, hits, keywords) = TypeScore(b, hits, keywords)
                /\ PlaceOf(a, upstream) < PlaceOf(b, upstream)

\* the ids of the hits that survive the filter
Surviving(hits) ==
    {id \in Ids(FirstSeen(hits, <<>>)) : DescriptionOf(id, hits) \notin wikimedia_types}

\* C25: the list a search returns holds the surviving candidates ordered by
\* descending score (+2 per keyword in the description, +3 per keyword in any
\* of all merged facets), candidates of equal score in upstream order; with
\* an empty hint the list is in upstream order.
C25_RankedByScoreStable ==
    [][ last'.op = "search" =>
            LET hits == last'.hits
                listed == last'.listed
                hint == RankHints[last'.arg]
            IN  /\ Ids(listed) = Surviving(hits)
                /\ Len(listed) = Cardinality(Surviving(hits))
                /\ \A i, j \in 1..Len(listed) :
                        i < j => RankedBefore(listed[i], listed[j], hits, hint)
      ]_vars

\* a search with the hint 'City' put the entity whose fourth facet is 'City'
\* before the two entities without a match, which came first and stayed in
\* upstream order
C25_FourthFacetRanksFirst ==
    /\ last.op = "search"
    /\ last.arg = "Shelbyville"
    /\ FirstSeen(last.hits, <<>>) = <<"Q3", "Q2", "Q4">>
    /\ last.listed = <<"Q4", "Q3", "Q2">>
    /\ ~Contains(last.ret, "City")


(***************************************************************************)
(* The fact sheet of Property Fetch for requests of one or more property   *)
(* codes: rows that bind an employer statement, a capital, both or         *)
(* neither, and lists with more distinct statements than are displayed     *)
(***************************************************************************)
\* the lists drawn from all sheet rows hold at most MaxSheetRows rows
MaxSheetRows == 2

\* the longest list of distinct employers
MaxEmployers == 7

\* employer, start time, end time, point in time, capital; "" for unbound
SheetStatements ==
    {<<employer[1], employer[2], employer[3], employer[4], capital>> :
        employer \in {<<"IBM", "", "", "">>, <<"Bell Labs", "", "", "">>,
                      <<"IBM", "1990-01-01T00:00:00Z", "", "">>, <<"", "", "", "">>},
        capital \in {"", "Paris"}}

\* the row of the query's result for a statement
SheetRow(t) ==
    [itemLabel |-> Value("Ada Example")]
    @@ (IF t[1] # "" THEN [p108ValueLabel |-> Value(t[1])] ELSE <<>>)
    @@ (IF t[2] # "" THEN [p108P580 |-> Value(t[2])] ELSE <<>>)
    @@ (IF t[3] # "" THEN [p108P582 |-> Value(t[3])] ELSE <<>>)
    @@ (IF t[4] # "" THEN [p108P585 |-> Value(t[4])] ELSE <<>>)
    @@ (IF t[5] # "" THEN [p36ValueLabel |-> Value(t[5])] ELSE <<>>)

\* n employers, the third of them in two consecutive rows
EmployerList(n) ==
    [i \in 1..(n + 1) |->
        <<"Employer " \o ToString(IF i > 3 THEN i - 1 ELSE i), "", "", "", "">>]

SheetLists ==
    UNION {[1..n -> SheetStatements] : n \in 1..MaxSheetRows}
    \cup {EmployerList(n) : n \in 4..MaxEmployers}

\* the requests: valid_props after the filter of fetch_entity_properties
SheetRequests ==
    {<<"P108">>, <<"P36">>, <<"P36", "P108">>, <<"P108", "P36">>, <<"P108", "P108">>}

InitSheet ==
    /\ allowed_qids = {}
    /\ qid_to_entity = EmptyMap
    /\ sparql_attempted = FALSE
    /\ last \in {[Call("sheet", via, "Q7259", [n \in 1..Len(props) |-> Str(props[n])], 0)
                    EXCEPT !.listed = list] :
                    via \in {"qualifiers", "values"}, list \in SheetLists,
                    props \in SheetRequests}
    /\ returned = {}
    /\ sparql_invoked = FALSE
    /\ revoked = {}
    /\ runs = [r \in Runs |-> IdleRun]
    /\ agent = IdleAgent

\* the codes of the request in last
RequestOf(call) == [n \in 1..Len(call.properties) |-> call.properties[n].items[1]]

\* format_property_results(bindings, valid_props, qid, include_qualifiers)
FormatSheet ==
    /\ last.op = "sheet"
    /\ \E text \in {format_property_results(
                        [n \in 1..Len(last.listed) |-> SheetRow(last.listed[n])],
                        RequestOf(last), last.arg, last.via = "qualifiers").text} :
            last' = [last EXCEPT !.op = "sheet formatted", !.ret = text]
    /\ UNCHANGED <<protocol, returned, sparql_invoked, revoked, runs, agent>>

SpecSheet == InitSheet /\ [][FormatSheet]_vars

RECURSIVE LinesOf(_)
\* text.split("\n")
LinesOf(text) ==
    IF ~Contains(text, "\n") THEN <<text>>
    ELSE LET at == CHOOSE i \in 1..Len(text) :
                        Ch(text, i) = "\n" /\ \A k \in 1..(i - 1) : Ch(text, k) # "\n"
         IN  <<SubSeq(text, 1, at - 1)>> \o LinesOf(SubSeq(text, at + 1, Len(text)))

\* the lines after the empty line that ends the header
SheetBody(text) ==
    LET lines == LinesOf(text)
        blank == CHOOSE i \in 1..Len(lines) : lines[i] = "" /\ \A k \in 1..(i - 1) : lines[k] # ""
    IN  SubSeq(lines, blank + 1, Len(lines))

RECURSIVE BlocksOf(_, _)
\* the lines grouped into blocks: a head and the entry lines under it
BlocksOf(lines, blocks) ==
    IF lines = <<>> THEN blocks
    ELSE IF StartsWithAt(lines[1], 1, "  - ") /\ blocks # <<>>
    THEN BlocksOf(Tail(lines), [blocks EXCEPT ![Len(blocks)].entries = Append(@, lines[1])])
    ELSE BlocksOf(Tail(lines), Append(blocks, [head |-> lines[1], entries |-> <<>>]))

\* the value and qualifiers a row binds for a property, as bound
TupleOf(prop, t) == IF prop = "P108" THEN <<t[1], t[2], t[3], t[4]>> ELSE <<t[5], "", "", "">>

RECURSIVE DistinctInOrder(_, _)
DistinctInOrder(seq, seen) ==
    IF seq = <<>> THEN seen
    ELSE DistinctInOrder(Tail(seq),
            IF \E n \in 1..Len(seen) : seen[n] = seq[1] THEN seen ELSE Append(seen, seq[1]))

\* the distinct value+qualifier tuples the rows give for a property, in
\* upstream order
Retrieved(prop, rows) ==
    DistinctInOrder(SelectSeq([n \in 1..Len(rows) |-> TupleOf(prop, rows[n])],
                              LAMBDA tuple : tuple[1] # ""), <<>>)

\* block shows the values of the entries, in order
ShowsEntries(block, label, entries) ==
    IF block.entries = <<>>
    THEN /\ Len(entries) = 1
         /\ block.head = label \o " " \o EmDash \o " " \o entries[1][1]
    ELSE /\ block.head = label \o ":"
         /\ Len(block.entries) = Len(entries)
         /\ \A k \in 1..Len(entries) :
                \/ block.entries[k] = "  - " \o entries[k][1]
                \/ StartsWithAt(block.entries[k], 1, "  - " \o entries[k][1] \o " (")

\* C26: the fact sheet has one block per code of the request, in request
\* order; a block shows the first five at most of the distinct
\* value+qualifier entries of its property in upstream order, and the block
\* of a property without a value is there and says '(not available)'.
C26_OneBlockPerProperty ==
    last.op = "sheet formatted" =>
        LET props == RequestOf(last)
            blocks == BlocksOf(SheetBody(last.ret), <<>>)
        IN  /\ Len(blocks) = Len(props)
            /\ \A n \in 1..Len(props) :
                    LET label == props[n] \o ": " \o WIKIDATA_PROPERTIES[props[n]]
                        entries == SliceTo(Retrieved(props[n], last.listed), 5)
                    IN  IF entries = <<>>
                        THEN blocks[n] = [head |-> label \o ": (not available)", entries |-> <<>>]
                        ELSE ShowsEntries(blocks[n], label, entries)

\* seven employers were retrieved and no capital: the sheet lists the first
\* five employers and says that the capital is not available
C26_FiveShownOneMissing ==
    /\ last.op = "sheet formatted"
    /\ RequestOf(last) = <<"P36", "P108">>
    /\ Len(Retrieved("P108", last.listed)) = 7
    /\ last.ret = "Entity: Ada Example\nQID: Q7259\n\nP36: capital: (not available)\n"
                    \o "P108: employer:\n  - Employer 1\n  - Employer 2\n  - Employer 3\n"
                    \o "  - Employer 4\n  - Employer 5"


(***************************************************************************)
(* register_search_candidates called with lists that hold valid ids, ids   *)
(* to normalise, ids of other shapes and candidates without an id          *)
(***************************************************************************)
\* the lists hold at most MaxCandidates candidates
MaxCandidates == 2

Candidates ==
    {[qid |-> id, label |-> "France"] :
        id \in {"Q12", " q7 ", "q12", "P31", "Q", "Q1a", "", "Q 1", "12"}}
    \cup {[label |-> "France"]}

CandidateLists == UNION {[1..n -> Candidates] : n \in 0..MaxCandidates}

\* register_search_candidates(entity_name, candidates); the calls that follow
\* one another are a run of lists of at most one candidate and then any list
Register(entity_name, candidates) ==
    /\ Len(last.hits) <= 1
    /\ \E st \in {register_search_candidates(entity_name, candidates, 1,
                        [allowed |-> allowed_qids, entity |-> qid_to_entity,
                         registered |-> <<>>])} :
            /\ allowed_qids' = st.allowed
            /\ qid_to_entity' = st.entity
            /\ last' = [Call("register", "", entity_name, <<>>, 0) EXCEPT
                            !.hits = candidates, !.listed = st.registered]
            /\ UNCHANGED <<sparql_attempted, returned, sparql_invoked, revoked, runs, agent>>

NextRegister ==
    \E entity_name \in {"France", " "}, candidates \in CandidateLists :
        Register(entity_name, candidates)

SpecRegister == Init /\ [][NextRegister]_vars

\* the id of a candidate, trimmed and upper-cased
NormalizedId(candidate) ==
    StrUpper(Strip(IF "qid" \in DOMAIN candidate THEN candidate.qid ELSE ""))

\* the valid entries of a list of candidates, in order
ValidEntries(candidates) ==
    SelectSeq([n \in 1..Len(candidates) |-> NormalizedId(candidates[n])], IsLiteralQid)

\* C27: every authorized id is Q followed by digits, trimmed and in upper
\* case; register_search_candidates adds the valid entries of its input and
\* nothing else, does not raise, and returns the ids it added.
C27_AuthorizedIdsValid ==
    [][ /\ \A id \in allowed_qids' : IsLiteralQid(id) /\ id = StrUpper(Strip(id))
        /\ last'.op = "register" =>
                /\ ~last'.raised
                /\ allowed_qids' = allowed_qids \cup Ids(ValidEntries(last'.hits))
                /\ last'.listed = ValidEntries(last'.hits)
      ]_vars

\* with Q12 authorized, a list of a padded lower-case id and a property id
\* was registered: the first was added in its normal form, the second dropped
C27_OneAddedOneDropped ==
    /\ last.op = "register"
    /\ last.hits = <<[qid |-> " q7 ", label |-> "France"], [qid |-> "P31", label |-> "France"]>>
    /\ last.listed = <<"Q7">>
    /\ allowed_qids = {"Q12", "Q7"}

=============================================================================
